---- MODULE Spec2Model ----
(***************************************************************************)
(* Model of the hybrid retrieval-and-ranking core, RAGRecommender in       *)
(* backend/app/services/rag_recommender_v2.py.                             *)
(*                                                                         *)
(* Text is modelled at character level: a Python str is a sequence of      *)
(* one-character strings, so lower(), split(), strip(), the substring test *)
(* and len() are computed as Python computes them.  Scores are kept exact  *)
(* by holding them in units of 1/ScoreDen(query) (see boosted_score).      *)
(***************************************************************************)
EXTENDS Integers, Sequences, FiniteSets, TLC

VARIABLES
  scenario,          \* which (catalog, query) pair the run is about
  vector_db,         \* self.vector_db is not None
  gemini_model,      \* self.gemini_model is not None
  reranker,          \* self.reranker: "NONE" | "REMOTE" | "LOCAL"
  score_threshold,   \* self.score_threshold (whole units)
  n_results,         \* argument of recommend
  llm_c,             \* what the language model does on the constraint prompt
  llm_e,             \* what the language model does on the expansion prompt
  bm25,              \* self.bm25 is not None
  bm25_docs,         \* self.bm25_docs, as catalog row numbers
  bm25_metas,        \* self.bm25_metas, as catalog row numbers
  bm25_initialized,  \* self._bm25_initialized
  pc,                \* position of the recommend call
  constraints,       \* local constraints
  search_queries,    \* local search_queries
  all_candidates,    \* all_candidates: insertion-ordered [url, row of the meta]
  all_docs,          \* all_docs: insertion-ordered [url, row of the document]
  idx,               \* loop index of the semantic/BM25 loop
  ranked_candidates, \* ranked_candidates after the sort
  final_metas,       \* final_metas, as catalog row numbers
  result,            \* the returned list
  exc,               \* an exception is propagating inside recommend
  escaped,           \* an exception left a function that promises not to raise
  llm_calls, embed_calls, search_calls, rerank_calls, bm25_builds,
  bm25_failures,     \* builds of the lexical index that ended in the except branch
  search_log,        \* retrieval calls of the loop iteration in progress
  tpc,               \* position of each thread inside _ensure_bm25_initialized
  tlocal,            \* each thread's local (metadatas, documents) of get_all
  enc                \* arguments and locals of one embedding_service.encode call

vars == << scenario, vector_db, gemini_model, reranker, score_threshold,
           n_results, llm_c, llm_e, bm25, bm25_docs, bm25_metas,
           bm25_initialized, pc, constraints, search_queries, all_candidates, all_docs,
           idx, ranked_candidates, final_metas, result, exc, escaped,
           llm_calls, embed_calls, search_calls, rerank_calls, bm25_builds,
           bm25_failures, search_log, tpc, tlocal, enc >>

(***************************************************************************)
(* Bounds of the model.                                                    *)
(***************************************************************************)
MaxTextLen == 6
MaxN == 2
MaxThreads == 2

\* encode: texts in one call, batch_size and max_retries arguments
MaxTexts == 3

MaxBatchSize == 2

MaxRetries == 3

\* enc outside an encode call
NoEncode == [pc |-> "none"]

(***************************************************************************)
(* Python str operations on character sequences.                           *)
(***************************************************************************)
UpperToLower ==
  [ A |-> "a", B |-> "b", C |-> "c", D |-> "d", E |-> "e", F |-> "f",
    G |-> "g", H |-> "h", I |-> "i", J |-> "j", K |-> "k", L |-> "l",
    M |-> "m", N |-> "n", O |-> "o", P |-> "p", Q |-> "q", R |-> "r",
    S |-> "s", T |-> "t", U |-> "u", V |-> "v", W |-> "w", X |-> "x",
    Y |-> "y", Z |-> "z" ]

LowerChar(c) == IF c \in DOMAIN UpperToLower THEN UpperToLower[c] ELSE c

Lower(s) == [i \in 1..Len(s) |-> LowerChar(s[i])]

IsSpace(c) == c \in {" ", "\n", "\t"}

SetMin(S) == CHOOSE m \in S : \A o \in S : m <= o

SetMax(S) == CHOOSE m \in S : \A o \in S : m >= o

Range(f) == {f[i] : i \in DOMAIN f}

RECURSIVE SplitFrom(_, _, _, _)
SplitFrom(s, i, cur, acc) ==
  IF i > Len(s)
    THEN (IF cur = <<>> THEN acc ELSE Append(acc, cur))
    ELSE IF IsSpace(s[i])
      THEN SplitFrom(s, i + 1, <<>>, IF cur = <<>> THEN acc ELSE Append(acc, cur))
      ELSE SplitFrom(s, i + 1, Append(cur, s[i]), acc)

\* str.split(): split on runs of whitespace, no empty pieces
Split(s) == SplitFrom(s, 1, <<>>, <<>>)

\* set(s.split())
TokenSet(s) == Range(Split(s))

RECURSIVE SplitOnFrom(_, _, _, _, _)
SplitOnFrom(s, sep, i, cur, acc) ==
  IF i > Len(s)
    THEN Append(acc, cur)
    ELSE IF s[i] = sep
      THEN SplitOnFrom(s, sep, i + 1, <<>>, Append(acc, cur))
      ELSE SplitOnFrom(s, sep, i + 1, Append(cur, s[i]), acc)

\* str.split(sep): empty pieces are kept
SplitOn(s, sep) == SplitOnFrom(s, sep, 1, <<>>, <<>>)

\* str.strip()
Strip(s) ==
  LET keep == {i \in 1..Len(s) : ~IsSpace(s[i])}
  IN  IF keep = {} THEN <<>> ELSE SubSeq(s, SetMin(keep), SetMax(keep))

\* needle in hay
Contains(hay, needle) ==
  \E i \in 0..(Len(hay) - Len(needle)) : SubSeq(hay, i + 1, i + Len(needle)) = needle

\* s[:n] for n >= 0
Take(s, n) == SubSeq(s, 1, IF n < Len(s) THEN n ELSE Len(s))

\* line.split(':', 1)[1]
AfterFirst(line, c) ==
  SubSeq(line, SetMin({i \in 1..Len(line) : line[i] = c}) + 1, Len(line))

(***************************************************************************)
(* Python dict helpers: a dict is a record over the keys it holds.         *)
(***************************************************************************)
EmptyDict == [k \in {} |-> TRUE]

Get(d, k, default) == IF k \in DOMAIN d THEN d[k] ELSE default

(***************************************************************************)
(* json.loads on the text shapes of the model.  "k" stands for a string or *)
(* scalar literal; the object grammar is                                   *)
(*   object ::= { } | { k : value }      value ::= k | object              *)
(* with whitespace allowed between tokens.  The content of the literals is *)
(* the payload that accompanies the text.                                  *)
(***************************************************************************)
NoWs(s) == SelectSeq(s, LAMBDA c : ~IsSpace(c))

RECURSIVE IsObject(_)
IsObject(t) ==
  /\ Len(t) >= 2
  /\ t[1] = "{"
  /\ t[Len(t)] = "}"
  /\ LET m == SubSeq(t, 2, Len(t) - 1)
     IN  \/ m = <<>>
         \/ /\ Len(m) >= 3
            /\ m[1] = "k"
            /\ m[2] = ":"
            /\ LET v == SubSeq(m, 3, Len(m))
               IN  v = <<"k">> \/ IsObject(v)

JsonLoads(json_str, payload) ==
  LET t == NoWs(json_str)
  IN  IF ~IsObject(t) THEN [exc |-> TRUE, value |-> EmptyDict]
      ELSE IF Len(t) = 2 THEN [exc |-> FALSE, value |-> EmptyDict]
      ELSE [exc |-> FALSE, value |-> payload]

(***************************************************************************)
(* String constants.                                                      *)
(***************************************************************************)
TARGET_KEYWORDS ==
  { <<"v", "e", "r", "b", "a", "l">>,
    <<"n", "u", "m", "e", "r", "i", "c", "a", "l">>,
    <<"l", "o", "g", "i", "c", "a", "l">>,
    <<"p", "e", "r", "s", "o", "n", "a", "l", "i", "t", "y">>,
    <<"c", "o", "g", "n", "i", "t", "i", "v", "e">>,
    <<"a", "p", "t", "i", "t", "u", "d", "e">>,
    <<"j", "a", "v", "a">>,
    <<"p", "y", "t", "h", "o", "n">>,
    <<"s", "q", "l">>,
    <<"t", "a", "b", "l", "e", "a", "u">>,
    <<"r", "e", "a", "c", "t">>,
    <<"a", "n", "g", "u", "l", "a", "r">>,
    <<"n", "o", "d", "e">>,
    <<"m", "a", "r", "k", "e", "t", "i", "n", "g">>,
    <<"s", "a", "l", "e", "s">>,
    <<"f", "i", "n", "a", "n", "c", "e">>,
    <<"a", "c", "c", "o", "u", "n", "t">>,
    <<"m", "a", "n", "a", "g", "e", "r">>,
    <<"e", "n", "g", "l", "i", "s", "h">>,
    <<"c", "o", "m", "m", "u", "n", "i", "c", "a", "t", "i", "o", "n">> }

Q_Entry == <<"e", "n", "t", "r", "y", " ", "l", "e", "v", "e", "l", " ", "p", "y", "t", "h", "o", "n", " ", "d", "e", "v", "e", "l", "o", "p", "e", "r">>

Q_Verbal == <<"v", "e", "r", "b", "a", "l">>

Q_Java == <<"S", "e", "n", "i", "o", "r", " ", "J", "a", "v", "a", "S", "c", "r", "i", "p", "t", " ", " ", "l", "e", "a", "d">>

Q_None == <<"q", "u", "a", "n", "t", "u", "m", " ", "c", "h", "e", "f">>

Q_Blank == <<" ">>

N_Python == <<"P", "y", "t", "h", "o", "n", " ", "P", "r", "o", "g", "r", "a", "m", "m", "i", "n", "g">>

N_SeniorJava == <<"S", "e", "n", "i", "o", "r", " ", "J", "a", "v", "a", " ", "A", "r", "c", "h", "i", "t", "e", "c", "t">>

N_Customer == <<"C", "u", "s", "t", "o", "m", "e", "r", " ", "S", "e", "r", "v", "i", "c", "e", " ", "R", "e", "p">>

N_Verbal == <<"V", "e", "r", "b", "a", "l", " ", "R", "e", "a", "s", "o", "n", "i", "n", "g", " ", "T", "e", "s", "t">>

N_Numerical == <<"N", "u", "m", "e", "r", "i", "c", "a", "l", " ", "A", "b", "i", "l", "i", "t", "y">>

N_VerbalSkills == <<"V", "e", "r", "b", "a", "l", " ", "S", "k", "i", "l", "l", "s">>

N_Java == <<"J", "a", "v", "a">>

N_JavaAdv == <<"J", "a", "v", "a", " ", "S", "e", "n", "i", "o", "r", " ", "L", "e", "a", "d", " ", "E", "x", "a", "m">>

N_LeadExam == <<"L", "e", "a", "d", " ", "E", "x", "a", "m">>

N_Sales == <<"S", "a", "l", "e", "s", " ", "A", "p", "t", "i", "t", "u", "d", "e">>

N_Typing == <<"T", "y", "p", "i", "n", "g">>

D_Python == <<"P", "y", "t", "h", "o", "n", " ", "P", "r", "o", "g", "r", "a", "m", "m", "i", "n", "g", " ", "e", "n", "t", "r", "y", " ", "l", "e", "v", "e", "l", " ", "c", "o", "d", "i", "n", "g">>

D_SeniorJava == <<"S", "e", "n", "i", "o", "r", " ", "J", "a", "v", "a", " ", "A", "r", "c", "h", "i", "t", "e", "c", "t", " ", "d", "e", "s", "i", "g", "n">>

D_Customer == <<"C", "u", "s", "t", "o", "m", "e", "r", " ", "S", "e", "r", "v", "i", "c", "e", " ", "R", "e", "p", " ", "e", "n", "t", "r", "y", " ", "s", "u", "p", "p", "o", "r", "t">>

D_Verbal == <<"V", "e", "r", "b", "a", "l", " ", "R", "e", "a", "s", "o", "n", "i", "n", "g", " ", "T", "e", "s", "t">>

D_Numerical == <<"N", "u", "m", "e", "r", "i", "c", "a", "l", " ", "A", "b", "i", "l", "i", "t", "y", " ", "n", "u", "m", "b", "e", "r", "s">>

D_VerbalSkills == <<"V", "e", "r", "b", "a", "l", " ", "S", "k", "i", "l", "l", "s", " ", "c", "h", "e", "c", "k">>

D_Java == <<"J", "a", "v", "a", " ", "b", "a", "s", "i", "c", "s">>

D_JavaAdv == <<"J", "a", "v", "a", " ", "s", "e", "n", "i", "o", "r", " ", "l", "e", "a", "d", " ", "e", "x", "a", "m">>

D_LeadExam == <<"L", "e", "a", "d", " ", "e", "x", "a", "m", " ", "p", "a", "p", "e", "r">>

D_Sales == <<"S", "a", "l", "e", "s", " ", "A", "p", "t", "i", "t", "u", "d", "e", " ", "f", "o", "r", " ", "m", "a", "n", "a", "g", "e", "r", "s">>

D_Typing == <<"T", "y", "p", "i", "n", "g", " ", "s", "p", "e", "e", "d">>

T_Good == <<"S", "K", "I", "L", "L", "S", ":", " ", "p", "y", "t", "h", "o", "n", ",", " ", "c", "o", "d", "i", "n", "g", "\n", "R", "O", "L", "E", "S", ":", " ", "d", "e", "v", "e", "l", "o", "p", "e", "r", "\n", "D", "O", "M", "A", "I", "N", ":", " ", "d", "e", "s", "i", "g", "n">>

T_TwoLines == <<"S", "K", "I", "L", "L", "S", ":", " ", "p", "y", "t", "h", "o", "n", "\n", "n", "o", " ", "v", "a", "r", "i", "a", "n", "t", "s", " ", "h", "e", "r", "e">>

T_Json == <<"H", "e", "r", "e", ":", " ", "{", "k", ":", "k", "}">>



Yes == <<"Y", "e", "s">>

No == <<"N", "o">>

yes_lc == <<"y", "e", "s">>

(***************************************************************************)
(* The language-model oracle.  An outcome is what one generate_content     *)
(* call does: it raises (network error, timeout, blocked response), or it  *)
(* returns a text; payload is the content of the literals of that text.    *)
(***************************************************************************)
LlmRaise == [kind |-> "raise", text |-> <<>>, payload |-> EmptyDict]

LlmText(text, payload) == [kind |-> "text", text |-> text, payload |-> payload]

\* Body of the try block of extract_metadata_constraints (lines 140-168).
extract_try(outcome) ==
  IF outcome.kind = "raise"
    THEN [exc |-> TRUE, value |-> EmptyDict]
    ELSE LET text == Strip(outcome.text)
             opens == {i \in 1..Len(text) : text[i] = "{"}
             closes == {i \in 1..Len(text) : text[i] = "}"}
         IN  IF opens # {}
               THEN IF closes = {}
                 THEN [exc |-> TRUE, value |-> EmptyDict]   \* rindex: ValueError
                 ELSE JsonLoads(SubSeq(text, SetMin(opens), SetMax(closes)),
                                outcome.payload)
               ELSE [exc |-> FALSE, value |-> EmptyDict]

\* no try/except around the oracle call and the parse
extract_metadata_constraints_nocatch(gemini, outcome) ==
  IF ~gemini
    THEN [exc |-> FALSE, value |-> EmptyDict, calls |-> 0]
    ELSE LET r == extract_try(outcome)
         IN  [exc |-> r.exc, value |-> r.value, calls |-> 1]

\* a failed call or parse is retried once before the fallback is taken
extract_metadata_constraints_retry(gemini, outcome) ==
  IF ~gemini
    THEN [exc |-> FALSE, value |-> EmptyDict, calls |-> 0]
    ELSE LET r == extract_try(outcome)
         IN  IF r.exc
               THEN [exc |-> FALSE, value |-> EmptyDict, calls |-> 2]
               ELSE [exc |-> FALSE, value |-> r.value, calls |-> 1]

\* extract_metadata_constraints(user_query); calls = oracle invocations.
extract_metadata_constraints(gemini, outcome) ==
  IF ~gemini
    THEN [exc |-> FALSE, value |-> EmptyDict, calls |-> 0]
    ELSE LET r == extract_try(outcome)
         IN  IF r.exc
               THEN [exc |-> FALSE, value |-> EmptyDict, calls |-> 1]
               ELSE [exc |-> FALSE, value |-> r.value, calls |-> 1]

\* The parse loop of multi_expand_query (lines 199-204).
expanded_queries(text) ==
  LET lines == SplitOn(text, "\n")
      with_colon == SelectSeq(lines, LAMBDA line : ":" \in Range(line))
  IN  [i \in 1..Len(with_colon) |-> Strip(AfterFirst(with_colon[i], ":"))]

\* the parse fallback adds nothing to the list
expand_try_single(user_query, outcome) ==
  IF outcome.kind = "raise"
    THEN [exc |-> TRUE, value |-> <<user_query>>]
    ELSE LET eq == expanded_queries(Strip(outcome.text))
             queries == IF Len(eq) >= 3
                          THEN <<user_query>> \o Take(eq, 3)
                          ELSE <<user_query>>
         IN  [exc |-> FALSE, value |-> Take(queries, 4)]

\* the parsed variants replace the list instead of extending it
expand_try_replace(user_query, outcome) ==
  IF outcome.kind = "raise"
    THEN [exc |-> TRUE, value |-> <<user_query>>]
    ELSE LET eq == expanded_queries(Strip(outcome.text))
             queries == IF Len(eq) >= 3
                          THEN eq
                          ELSE <<user_query>> \o <<user_query, user_query, user_query>>
         IN  [exc |-> FALSE, value |-> Take(queries, 4)]

\* Body of the try block of multi_expand_query (lines 185-214).
expand_try(user_query, outcome) ==
  IF outcome.kind = "raise"
    THEN [exc |-> TRUE, value |-> <<user_query>>]
    ELSE LET eq == expanded_queries(Strip(outcome.text))
             queries == IF Len(eq) >= 3
                          THEN <<user_query>> \o Take(eq, 3)
                          ELSE <<user_query>> \o <<user_query, user_query, user_query>>
         IN  [exc |-> FALSE, value |-> Take(queries, 4)]

\* the except branch falls back to four copies as the parse fallback does
multi_expand_query_dup(gemini, user_query, outcome) ==
  IF ~gemini
    THEN [exc |-> FALSE, value |-> <<user_query>>, calls |-> 0]
    ELSE LET r == expand_try(user_query, outcome)
         IN  IF r.exc
               THEN [exc |-> FALSE,
                     value |-> <<user_query, user_query, user_query, user_query>>,
                     calls |-> 1]
               ELSE [exc |-> FALSE, value |-> r.value, calls |-> 1]

\* multi_expand_query(user_query)
multi_expand_query(gemini, user_query, outcome) ==
  IF ~gemini
    THEN [exc |-> FALSE, value |-> <<user_query>>, calls |-> 0]
    ELSE LET r == expand_try(user_query, outcome)
         IN  IF r.exc
               THEN [exc |-> FALSE, value |-> <<user_query>>, calls |-> 1]
               ELSE [exc |-> FALSE, value |-> r.value, calls |-> 1]

(***************************************************************************)
(* The catalog held by the vector store, and the requests of the model.    *)
(* A row is the metadata dict of one assessment plus its document text.    *)
(***************************************************************************)
Row(name, url, doc, duration, job_level, remote, adaptive) ==
  [name |-> name, url |-> url, doc |-> doc, duration |-> duration,
   job_level |-> job_level, remote_support |-> remote,
   adaptive_support |-> adaptive]

Catalogs ==
  << << Row(N_Python, "u1", D_Python, 45, "Entry_Level", Yes, No),
        Row(N_SeniorJava, "u2", D_SeniorJava, 90, "Manager_Senior", Yes, Yes),
        Row(N_Customer, "u3", D_Customer, 40, "General", No, No) >>,
     << Row(N_Verbal, "u4", D_Verbal, 30, "General", yes_lc, No),
        Row(N_Numerical, "u5", D_Numerical, 20, "Entry_Level", Yes, Yes),
        Row(N_VerbalSkills, "", D_VerbalSkills, 25, "General", Yes, No) >>,
     << Row(N_Java, "u6", D_Java, 60, "Entry_Level", Yes, No),
        Row(N_JavaAdv, "u6", D_JavaAdv, 60, "Manager_Senior", Yes, No),
        Row(N_LeadExam, "u7", D_LeadExam, 15, "General", No, Yes) >>,
     << Row(N_Sales, "u8", D_Sales, 30, "Manager_Senior", Yes, Yes),
        Row(N_Typing, "u9", D_Typing, 10, "Entry_Level", No, No) >>,
     << Row(N_Sales, "u8", D_Sales, 30, "Manager_Senior", Yes, Yes) >> >>

Queries == << Q_Entry, Q_Verbal, Q_Java, Q_None, Q_Blank >>

Scenarios == DOMAIN Catalogs

catalog == Catalogs[scenario]

query == Queries[scenario]

\* set(text.lower().split()) of the request's query and of every document
\* and name of the store, tabulated once per catalog
query_keywords_of ==
  [s \in Scenarios |-> TokenSet(Lower(Queries[s]))]

doc_keywords_of ==
  [s \in Scenarios |->
     [r \in DOMAIN Catalogs[s] |-> TokenSet(Lower(Catalogs[s][r].doc))]]

name_keywords_of ==
  [s \in Scenarios |->
     [r \in DOMAIN Catalogs[s] |-> TokenSet(Lower(Catalogs[s][r].name))]]

\* the threads that may run recommend on the one shared instance
Threads == 1..MaxThreads

\* self.url_mapping: old url -> new url
url_mapping == [u1 |-> "m1", u6 |-> "m6"]

\* RAG_RETRIEVAL_COUNT, set below the catalog size so that top-K cuts
retrieval_k == 2

Thresholds == {-2, 2}

\* what the language model answers to the constraint prompt in a request
ConstraintOutcomes ==
  { LlmRaise,
    LlmText(T_Json, [job_level |-> "Entry_Level"]),
    LlmText(T_Json, [job_level |-> "Manager_Senior"]),
    LlmText(T_Json, [job_level |-> "General", requires_remote |-> TRUE]),
    LlmText(T_Json, [max_duration_minutes |-> 40, requires_adaptive |-> TRUE]) }

\* what the language model answers to the expansion prompt in a request
ExpansionOutcomes ==
  { LlmRaise,
    LlmText(T_TwoLines, EmptyDict),
    LlmText(T_Good, EmptyDict) }

(***************************************************************************)
(* recommend, step by step.  pc is the position inside the call; an        *)
(* exception raised inside the try block (lines 224-536) moves the call to *)
(* the handler of lines 538-542.                                           *)
(***************************************************************************)
\* a handler that catches one kind of exception only
on_exception_narrow(kind) == IF kind = "IndexError" THEN "except" ELSE "raised"

\* where an exception of the given kind raised inside the try block lands
on_exception(kind) == "except"

Raise(kind) ==
  /\ pc' = on_exception(kind)
  /\ exc' = kind

\* the safety check is left out
vector_db_unavailable_skipped == FALSE

\* line 226: not self.vector_db
vector_db_unavailable == ~vector_db

\* lines 224-228
RecommendBegin ==
  /\ pc = "start"
  /\ IF vector_db_unavailable
       THEN /\ result' = <<>>
            /\ pc' = "done"
       ELSE /\ pc' = "extract"
            /\ UNCHANGED result
  /\ UNCHANGED << bm25_failures, search_log, tpc, tlocal, scenario, vector_db, gemini_model, reranker, score_threshold,
                  n_results, llm_c, llm_e, bm25, bm25_docs, bm25_metas,
                  bm25_initialized, constraints, search_queries,
                  all_candidates, all_docs, idx, ranked_candidates, final_metas, exc,
                  escaped, llm_calls, embed_calls, search_calls, rerank_calls,
                  bm25_builds, enc >>

\* line 231
ExtractStep ==
  /\ pc = "extract"
  /\ \E r \in {extract_metadata_constraints(gemini_model, llm_c)} :
         /\ llm_calls' = llm_calls + r.calls
         /\ IF r.exc
              THEN /\ Raise("Exception")
                   /\ escaped' = TRUE
                   /\ UNCHANGED constraints
              ELSE /\ constraints' = r.value
                   /\ pc' = "expand"
                   /\ UNCHANGED << exc, escaped >>
  /\ UNCHANGED << bm25_failures, search_log, tpc, tlocal, scenario, vector_db, gemini_model, reranker, score_threshold,
                  n_results, llm_c, llm_e, bm25, bm25_docs, bm25_metas,
                  bm25_initialized, search_queries, all_candidates, all_docs, idx,
                  ranked_candidates, final_metas, result, embed_calls,
                  search_calls, rerank_calls, bm25_builds, enc >>

\* line 234
ExpandStep ==
  /\ pc = "expand"
  /\ \E r \in {multi_expand_query(gemini_model, query, llm_e)} :
         /\ llm_calls' = llm_calls + r.calls
         /\ IF r.exc
              THEN /\ Raise("Exception")
                   /\ escaped' = TRUE
                   /\ UNCHANGED search_queries
              ELSE /\ search_queries' = r.value
                   /\ pc' = "bm25"
                   /\ UNCHANGED << exc, escaped >>
  /\ UNCHANGED << bm25_failures, search_log, tpc, tlocal, scenario, vector_db, gemini_model, reranker, score_threshold,
                  n_results, llm_c, llm_e, bm25, bm25_docs, bm25_metas,
                  bm25_initialized, constraints, all_candidates, all_docs, idx,
                  ranked_candidates, final_metas, result, embed_calls,
                  search_calls, rerank_calls, bm25_builds, enc >>

\* _ensure_bm25_initialized (lines 111-133), called at line 251.  get_all
\* returns the rows, returns nothing (BM25Okapi then divides by zero) or
\* raises; both failures end in the except branch of lines 129-133.
GetAllOutcomes == {"rows", "empty", "raise"}

EnsureBm25Step ==
  /\ pc = "bm25"
  /\ pc' = "exact"
  /\ IF bm25_initialized
       THEN UNCHANGED << bm25, bm25_docs, bm25_metas, bm25_initialized,
                         bm25_builds, bm25_failures >>
       ELSE /\ bm25_builds' = bm25_builds + 1
            /\ \E out \in GetAllOutcomes :
                 IF out = "rows" /\ Len(catalog) > 0
                   THEN /\ bm25_docs' = [i \in 1..Len(catalog) |-> i]
                        /\ bm25_metas' = [i \in 1..Len(catalog) |-> i]
                        /\ bm25' = TRUE
                        /\ bm25_initialized' = TRUE
                        /\ UNCHANGED bm25_failures
                   ELSE /\ bm25' = FALSE
                        /\ bm25_docs' = <<>>
                        /\ bm25_metas' = <<>>
                        /\ bm25_failures' = bm25_failures + 1
                        /\ UNCHANGED bm25_initialized
  /\ UNCHANGED << search_log, tpc, tlocal, scenario, vector_db, gemini_model, reranker, score_threshold,
                  n_results, llm_c, llm_e, constraints, search_queries,
                  all_candidates, all_docs, idx, ranked_candidates, final_metas, result,
                  exc, escaped, llm_calls, embed_calls, search_calls,
                  rerank_calls, enc >>

(***************************************************************************)
(* The candidate pool: all_candidates and all_docs are two dicts written   *)
(* under the same key; each is kept as an insertion-ordered sequence, the  *)
(* first of [url, row] for the meta, the second of [url, doc] for the      *)
(* document text, row and doc being catalog row numbers.                   *)
(***************************************************************************)
PoolUrls(pool) == {pool[i].url : i \in 1..Len(pool)}

\* the membership test is left out: a later sighting overwrites the entry
AddCandidate_overwrite(pool, row) ==
  LET url == catalog[row].url
  IN  IF url = "" THEN pool
      ELSE IF url \in PoolUrls(pool)
        THEN [i \in 1..Len(pool) |->
                IF pool[i].url = url THEN [url |-> url, row |-> row] ELSE pool[i]]
        ELSE Append(pool, [url |-> url, row |-> row])

\* if url and url not in all_candidates: all_candidates[url] = meta; all_docs[url] = doc
AddCandidate(pool, row) ==
  LET url == catalog[row].url
  IN  IF url # "" /\ url \notin PoolUrls(pool)
        THEN Append(pool, [url |-> url, row |-> row])
        ELSE pool

RECURSIVE AddAll(_, _)
AddAll(pool, rows) ==
  IF rows = <<>> THEN pool
  ELSE AddAll(AddCandidate(pool, Head(rows)), Tail(rows))

\* the document is written whether or not the url is usable and new
AddDoc_unguarded(pool, docs, row, doc) ==
  Append(docs, [url |-> catalog[row].url, doc |-> doc])

\* all_docs[url] = doc, under the same test as all_candidates[url] = meta
AddDoc(pool, docs, row, doc) ==
  LET url == catalog[row].url
  IN  IF url # "" /\ url \notin PoolUrls(pool)
        THEN Append(docs, [url |-> url, doc |-> doc])
        ELSE docs

\* all_docs after a loop over (meta, doc) pairs that starts from pool
RECURSIVE AddAllDocs(_, _, _)
AddAllDocs(pool, docs, pairs) ==
  IF pairs = <<>> THEN docs
  ELSE AddAllDocs(AddCandidate(pool, Head(pairs)[1]),
                  AddDoc(pool, docs, Head(pairs)[1], Head(pairs)[2]),
                  Tail(pairs))

\* the targeted single-keyword rule is left out
is_match_nokeyword(name, query_lower, query_parts) ==
  IF Contains(query_lower, name) /\ Len(name) > 3
    THEN TRUE
    ELSE LET name_parts == TokenSet(name)
             overlap == Cardinality(query_parts \cap name_parts)
         IN  /\ name_parts # {}
             /\ \/ Cardinality(name_parts) <= 2 /\ overlap >= 1
                \/ 2 * overlap >= Cardinality(name_parts)
                \/ overlap >= 2

\* the exact-phrase rule is left out
is_match_nophrase(name, query_lower, query_parts) ==
  LET name_parts == TokenSet(name)
      common_words == query_parts \cap name_parts
      overlap == Cardinality(common_words)
  IN  /\ name_parts # {}
      /\ \/ \E w \in common_words : w \in TARGET_KEYWORDS
         \/ Cardinality(name_parts) <= 2 /\ overlap >= 1
         \/ 2 * overlap >= Cardinality(name_parts)
         \/ overlap >= 2

\* lines 266-292: is_match for one lowercased name
is_match(name, query_lower, query_parts) ==
  IF Contains(query_lower, name) /\ Len(name) > 3
    THEN TRUE
    ELSE LET name_parts == TokenSet(name)
             common_words == query_parts \cap name_parts
             overlap == Cardinality(common_words)
         IN  /\ name_parts # {}
             /\ \/ \E w \in common_words : w \in TARGET_KEYWORDS
                \/ Cardinality(name_parts) <= 2 /\ overlap >= 1
                \/ 2 * overlap >= Cardinality(name_parts)
                \/ overlap >= 2

\* the pass applies the manual constraint filter of the lexical channel
exact_name_row_filtered(pool, row) ==
  LET url == catalog[row].url
      name == Lower(catalog[row].name)
  IN  IF name = <<>> \/ url = ""
        THEN pool
        ELSE IF /\ is_match(name, Lower(query), TokenSet(Lower(query)))
                /\ ~ ( /\ Get(constraints, "max_duration_minutes", 0) # 0
                        /\ catalog[row].duration > constraints.max_duration_minutes )
                /\ ~ ( /\ Get(constraints, "requires_adaptive", FALSE)
                        /\ Lower(catalog[row].adaptive_support) # <<"y", "e", "s">> )
                /\ ~ ( /\ Get(constraints, "job_level", "") = "Entry_Level"
                        /\ catalog[row].job_level = "Manager_Senior" )
                /\ ~ ( /\ Get(constraints, "job_level", "") = "Manager_Senior"
                        /\ catalog[row].job_level = "Entry_Level" )
          THEN AddCandidate(pool, row)
          ELSE pool

\* lines 258-298, one row of the loop over self.bm25_metas
exact_name_row(pool, row) ==
  LET url == catalog[row].url
      name == Lower(catalog[row].name)
  IN  IF name = <<>> \/ url = ""
        THEN pool
        ELSE IF is_match(name, Lower(query), TokenSet(Lower(query)))
          THEN AddCandidate(pool, row)
          ELSE pool

RECURSIVE exact_name_pass(_, _)
exact_name_pass(pool, metas) ==
  IF metas = <<>> THEN pool
  ELSE exact_name_pass(exact_name_row(pool, Head(metas)), Tail(metas))

\* lines 257-298: the (meta, doc) pairs the pass writes, the doc of a match
\* being self.bm25_docs[idx]
exact_name_pairs ==
  LET hits == SelectSeq([i \in 1..Len(bm25_metas) |-> i],
                        LAMBDA i : exact_name_row(<<>>, bm25_metas[i]) # <<>>)
  IN  [k \in 1..Len(hits) |-> << bm25_metas[hits[k]], bm25_docs[hits[k]] >>]

\* lines 240-300
ExactNameStep ==
  /\ pc = "exact"
  /\ all_candidates' = IF bm25_metas # <<>>
                         THEN exact_name_pass(<<>>, bm25_metas)
                         ELSE <<>>
  /\ all_docs' = IF bm25_metas # <<>>
                   THEN AddAllDocs(<<>>, <<>>, exact_name_pairs)
                   ELSE <<>>
  /\ idx' = 1
  /\ pc' = "semantic"
  /\ UNCHANGED << bm25_failures, search_log, tpc, tlocal, scenario, vector_db, gemini_model, reranker, score_threshold,
                  n_results, llm_c, llm_e, bm25, bm25_docs, bm25_metas,
                  bm25_initialized, constraints, search_queries,
                  ranked_candidates, final_metas, result, exc, escaped,
                  llm_calls, embed_calls, search_calls, rerank_calls,
                  bm25_builds, enc >>

(***************************************************************************)
(* Semantic channel (lines 303-343).                                       *)
(***************************************************************************)
\* the band General is not sent to the store
build_filters_general_open(c) ==
  [k \in ( (IF Get(c, "job_level", "") \notin {"", "General"} THEN {"job_level"} ELSE {})
           \cup (IF Get(c, "max_duration_minutes", 0) # 0 THEN {"max_duration"} ELSE {})
           \cup (IF Get(c, "requires_remote", FALSE) THEN {"remote_support"} ELSE {})
           \cup (IF Get(c, "requires_adaptive", FALSE) THEN {"adaptive_support"} ELSE {}) )
     |-> CASE k = "job_level" -> c.job_level
           [] k = "max_duration" -> c.max_duration_minutes
           [] k = "remote_support" -> Yes
           [] k = "adaptive_support" -> Yes]

\* lines 312-320
build_filters(c) ==
  [k \in ( (IF Get(c, "job_level", "") # "" THEN {"job_level"} ELSE {})
           \cup (IF Get(c, "max_duration_minutes", 0) # 0 THEN {"max_duration"} ELSE {})
           \cup (IF Get(c, "requires_remote", FALSE) THEN {"remote_support"} ELSE {})
           \cup (IF Get(c, "requires_adaptive", FALSE) THEN {"adaptive_support"} ELSE {}) )
     |-> CASE k = "job_level" -> c.job_level
           [] k = "max_duration" -> c.max_duration_minutes
           [] k = "remote_support" -> Yes
           [] k = "adaptive_support" -> Yes]

\* line 331
filters_no_level(filters) ==
  [k \in DOMAIN filters \ {"job_level"} |-> filters[k]]

\* the where-clause of the vector store (core/vector_db.py, lines 92-97, 157-165)
satisfies_filters(row, filters) ==
  /\ "job_level" \in DOMAIN filters => catalog[row].job_level = filters.job_level
  /\ "max_duration" \in DOMAIN filters => catalog[row].duration <= filters.max_duration
  /\ "remote_support" \in DOMAIN filters => catalog[row].remote_support = filters.remote_support
  /\ "adaptive_support" \in DOMAIN filters => catalog[row].adaptive_support = filters.adaptive_support

InjectiveSeqs(S, n) ==
  {s \in [1..n -> S] : \A i, j \in 1..n : i # j => s[i] # s[j]}

\* the fallback of the Supabase backend (core/vector_db.py, lines 225-257):
\* when its similarity search fails it returns the first n_results rows of
\* the table, filters not applied
unfiltered_fallback ==
  LET all == 1..Len(catalog)
      n == IF Len(catalog) < retrieval_k THEN Len(catalog) ELSE retrieval_k
  IN  InjectiveSeqs(all, n)

\* vector_db.search: raises (ChromaDB), or returns up to n_results distinct
\* rows that pass the filters, in the order of the store's similarity
\* ranking, or returns the unfiltered fallback rows (Supabase)
SearchOutcomes(filters) ==
  LET ok == {r \in 1..Len(catalog) : satisfies_filters(r, filters)}
      most == IF Cardinality(ok) < retrieval_k THEN Cardinality(ok) ELSE retrieval_k
  IN  {[raise |-> TRUE, rows |-> <<>>]}
      \cup {[raise |-> FALSE, rows |-> s] : s \in UNION {InjectiveSeqs(ok, n) : n \in 0..most}}
      \cup {[raise |-> FALSE, rows |-> s] : s \in unfiltered_fallback}

\* one vector_db.search call: the filters argument and what came back
SearchCall(filters, out) ==
  [filters |-> filters, raised |-> out.raise, found |-> Len(out.rows)]

\* the retry is made for any filter, not for the seniority filter only
retry_on_any_filter(found, filters) ==
  found = 0 /\ DOMAIN filters # {}

\* line 329: len(sem_metas) == 0 and filters and filters.get('job_level')
retry_without_level(found, filters) ==
  found = 0 /\ "job_level" \in DOMAIN filters

\* zip(sem_metas, sem_docs): the store builds both lists from the same rows
zip(metas, docs) ==
  [i \in 1..(IF Len(metas) < Len(docs) THEN Len(metas) ELSE Len(docs)) |->
     << metas[i], docs[i] >>]

SemanticStep ==
  /\ pc = "semantic"
  /\ idx <= Len(search_queries)
  /\ embed_calls' = embed_calls + 1
  /\ LET filters == build_filters(constraints)
     IN  \/ \* embedding_service.encode raises
            /\ Raise("EmbeddingError")
            /\ search_log' = <<>>
            /\ UNCHANGED << all_candidates, all_docs, search_calls >>
         \/ \E first \in SearchOutcomes(filters) :
              IF first.raise
                THEN /\ Raise("SearchError")
                     /\ search_calls' = search_calls + 1
                     /\ search_log' = << SearchCall(filters, first) >>
                     /\ UNCHANGED << all_candidates, all_docs >>
                ELSE IF retry_without_level(Len(first.rows), filters)
                  THEN \E second \in SearchOutcomes(filters_no_level(filters)) :
                         /\ search_calls' = search_calls + 2
                         /\ search_log' = << SearchCall(filters, first),
                                             SearchCall(filters_no_level(filters), second) >>
                         /\ IF second.raise
                              THEN /\ Raise("SearchError")
                                   /\ UNCHANGED << all_candidates, all_docs >>
                              ELSE /\ all_candidates' = AddAll(all_candidates, second.rows)
                                   /\ all_docs' = AddAllDocs(all_candidates, all_docs,
                                                             zip(second.rows, second.rows))
                                   /\ pc' = "lexical"
                                   /\ UNCHANGED exc
                  ELSE /\ search_calls' = search_calls + 1
                       /\ search_log' = << SearchCall(filters, first) >>
                       /\ all_candidates' = AddAll(all_candidates, first.rows)
                       /\ all_docs' = AddAllDocs(all_candidates, all_docs,
                                                 zip(first.rows, first.rows))
                       /\ pc' = "lexical"
                       /\ UNCHANGED exc
  /\ UNCHANGED << bm25_failures, tpc, tlocal, scenario, vector_db, gemini_model, reranker, score_threshold,
                  n_results, llm_c, llm_e, bm25, bm25_docs, bm25_metas,
                  bm25_initialized, constraints, search_queries, idx,
                  ranked_candidates, final_metas, result, escaped, llm_calls,
                  rerank_calls, bm25_builds, enc >>

(***************************************************************************)
(* Lexical channel (lines 345-393).  BM25Okapi.get_scores is a library     *)
(* call: its scores are any levels that give 0 to a document sharing no    *)
(* token with the query; argsort breaks ties in any order.                 *)
(***************************************************************************)
Bm25Levels == {0, 1, 2}

bm25_scores(tokenized_query) ==
  {s \in [1..Len(bm25_docs) -> Bm25Levels] :
     \A i \in 1..Len(bm25_docs) :
       Range(tokenized_query) \cap doc_keywords_of[scenario][bm25_docs[i]] = {}
         => s[i] = 0}

\* np.argsort(bm25_scores)[-retrieval_k:][::-1]
top_indices(s) ==
  LET n == Len(s)
      k == IF n < retrieval_k THEN n ELSE retrieval_k
  IN  {p \in InjectiveSeqs(1..n, k) :
         /\ \A i, j \in 1..k : i < j => s[p[i]] >= s[p[j]]
         /\ \A r \in (1..n) \ Range(p) : \A i \in 1..k : s[r] <= s[p[i]]}

\* the manual filter is left out
bm25_keeps_unfiltered(c, row) == TRUE

\* lines 360-386: the manual filter of one BM25 hit
bm25_keeps(c, row) ==
  LET meta == catalog[row]
  IN  \/ DOMAIN c = {}
      \/ /\ ~ ( /\ Get(c, "max_duration_minutes", 0) # 0
                /\ meta.duration > c.max_duration_minutes )
         /\ ~ ( /\ Get(c, "requires_remote", FALSE)
                /\ Lower(meta.remote_support) # yes_lc )
         /\ ~ ( /\ Get(c, "job_level", "") \notin {"", "General"}
                /\ \/ c.job_level = "Entry_Level" /\ meta.job_level = "Manager_Senior"
                   \/ c.job_level = "Manager_Senior" /\ meta.job_level = "Entry_Level" )
         /\ ~ ( /\ Get(c, "requires_adaptive", FALSE)
                /\ Lower(meta.adaptive_support) # yes_lc )

\* lines 353-393
bm25_add(pool, c, p) ==
  AddAll(pool, SelectSeq([i \in 1..Len(p) |-> bm25_metas[p[i]]],
                         LAMBDA row : bm25_keeps(c, row)))

\* lines 353-393: the (meta, doc) pairs of the hits that pass the filter
bm25_pairs(c, p) ==
  LET kept == SelectSeq(p, LAMBDA i : bm25_keeps(c, bm25_metas[i]))
  IN  [k \in 1..Len(kept) |-> << bm25_metas[kept[k]], bm25_docs[kept[k]] >>]

\* one pass of the lexical channel: the scores get_scores gave and the rows
\* the pass wrote into the pool
LexicalCall(before, after, scores) ==
  [lexical |-> [k \in 1..(Len(after) - Len(before)) |-> after[Len(before) + k].row],
   scores |-> scores]

Bm25Step ==
  /\ pc = "lexical"
  /\ IF bm25
       THEN LET search_query == IF Len(search_queries[idx]) > 1000
                                  THEN SubSeq(search_queries[idx], 1, 1000)
                                  ELSE search_queries[idx]
            IN  \E s \in bm25_scores(Split(Lower(search_query))) :
                  \E p \in top_indices(s) :
                    /\ all_candidates' = bm25_add(all_candidates, constraints, p)
                    /\ all_docs' = AddAllDocs(all_candidates, all_docs,
                                              bm25_pairs(constraints, p))
                    /\ search_log' =
                         Append(search_log, LexicalCall(all_candidates, all_candidates', s))
       ELSE /\ UNCHANGED << all_candidates, all_docs >>
            /\ search_log' =
                 Append(search_log, LexicalCall(all_candidates, all_candidates, <<>>))
  /\ idx' = idx + 1
  /\ pc' = "semantic"
  /\ UNCHANGED << bm25_failures, tpc, tlocal, scenario, vector_db, gemini_model, reranker, score_threshold,
                  n_results, llm_c, llm_e, bm25, bm25_docs, bm25_metas,
                  bm25_initialized, constraints, search_queries,
                  ranked_candidates, final_metas, result, exc, escaped,
                  llm_calls, embed_calls, search_calls, rerank_calls,
                  bm25_builds, enc >>

(***************************************************************************)
(* Reranking (lines 395-495).  Scores are exact: boosted scores are held   *)
(* in units of 1/ScoreDen, the number of distinct query tokens.            *)
(***************************************************************************)
OracleLevels == {-4, 0}

query_keywords == query_keywords_of[scenario]

ScoreDen == IF query_keywords = {} THEN 1 ELSE Cardinality(query_keywords)

\* the penalty is applied in one direction only
job_level_penalty_oneway(c, row) ==
  IF Get(c, "job_level", "") # ""
    THEN IF c.job_level = "Entry_Level" /\ catalog[row].job_level = "Manager_Senior"
           THEN -3
           ELSE 0
    ELSE 0

\* lines 466-476
job_level_penalty(c, row) ==
  IF Get(c, "job_level", "") # ""
    THEN IF c.job_level = "Entry_Level" /\ catalog[row].job_level = "Manager_Senior"
           THEN -3
           ELSE IF c.job_level = "Manager_Senior" /\ catalog[row].job_level = "Entry_Level"
             THEN -3
             ELSE 0
    ELSE 0

\* lines 446-479, times ScoreDen
total_boost(c, row) ==
  LET doc_keywords == doc_keywords_of[scenario][row]
      name_keywords == name_keywords_of[scenario][row]
      overlap == Cardinality(query_keywords \cap doc_keywords)
      name_overlap == Cardinality(query_keywords \cap name_keywords)
  IN  IF query_keywords = {}
        THEN job_level_penalty(c, row)
        ELSE 3 * overlap + 5 * name_overlap + job_level_penalty(c, row) * ScoreDen

\* line 480, times ScoreDen
boosted_score(c, row, score) == score * ScoreDen + total_boost(c, row)

\* lines 484-492; scores is no longer than the pool here
combine(c, pool, scores) ==
  [i \in 1..Len(scores) |->
     [url |-> pool[i].url, row |-> pool[i].row,
      score |-> boosted_score(c, pool[i].row, scores[i]),
      original_score |-> scores[i]]]

\* list.sort(key=score, reverse=True): stable, equal scores keep their order
InsertDesc(acc, x) ==
  LET k == Cardinality({i \in 1..Len(acc) : acc[i].score >= x.score})
  IN  SubSeq(acc, 1, k) \o <<x>> \o SubSeq(acc, k + 1, Len(acc))

RECURSIVE SortDescFrom(_, _)
SortDescFrom(acc, rest) ==
  IF rest = <<>> THEN acc
  ELSE SortDescFrom(InsertDesc(acc, Head(rest)), Tail(rest))

sort_desc(cands) == SortDescFrom(<<>>, cands)

Zeros(n) == [i \in 1..n |-> 0]

\* what the cross-encoder call does for n documents: the remote API raises
\* or times out, answers with a status other than 200, or answers 200 with
\* a score list of any length; the local model raises or scores every pair
RerankOutcomes(n) ==
  IF reranker = "REMOTE"
    THEN {[kind |-> "exception", scores |-> <<>>], [kind |-> "status", scores |-> <<>>]}
         \cup {[kind |-> "scores", scores |-> s] :
                 s \in UNION {[1..m -> OracleLevels] : m \in 0..(n + 1)}}
    ELSE {[kind |-> "exception", scores |-> <<>>]}
         \cup {[kind |-> "scores", scores |-> s] : s \in [1..n -> OracleLevels]}

\* lines 410-438: the scores the boost loop iterates over
rerank_scores(out, n) ==
  IF reranker = "REMOTE"
    THEN IF out.kind = "scores" /\ Len(out.scores) # 0
           THEN [exc |-> FALSE, value |-> out.scores]
           ELSE [exc |-> FALSE, value |-> Zeros(n)]
    ELSE IF out.kind = "exception"
           THEN [exc |-> TRUE, value |-> <<>>]
           ELSE [exc |-> FALSE, value |-> out.scores]

\* line 516
no_reranker_metas(pool, n) ==
  LET metas == [i \in 1..Len(pool) |-> pool[i].row]
  IN  Take(metas, n)

RerankStep ==
  /\ pc = "semantic"
  /\ idx > Len(search_queries)
  /\ IF all_candidates = <<>>
       THEN \* lines 396-397
            /\ result' = <<>>
            /\ pc' = "done"
            /\ UNCHANGED << ranked_candidates, final_metas, exc, rerank_calls >>
       ELSE IF reranker # "NONE"
         THEN /\ rerank_calls' = rerank_calls + 1
              /\ \E out \in RerankOutcomes(Len(all_candidates)) :
                   LET r == rerank_scores(out, Len(all_candidates))
                   IN  IF r.exc
                         THEN /\ Raise("RerankerError")
                              /\ UNCHANGED ranked_candidates
                         ELSE IF Len(r.value) > Len(all_candidates)
                           THEN \* docs[idx] at line 446
                                /\ Raise("IndexError")
                                /\ UNCHANGED ranked_candidates
                           ELSE /\ ranked_candidates' =
                                     sort_desc(combine(constraints, all_candidates, r.value))
                                /\ pc' = "select"
                                /\ UNCHANGED exc
              /\ UNCHANGED << final_metas, result >>
         ELSE /\ final_metas' = no_reranker_metas(all_candidates, n_results)
              /\ pc' = "format"
              /\ UNCHANGED << ranked_candidates, result, exc, rerank_calls >>
  /\ search_log' = <<>>
  /\ UNCHANGED << bm25_failures, tpc, tlocal, scenario, vector_db, gemini_model, reranker, score_threshold,
                  n_results, llm_c, llm_e, bm25, bm25_docs, bm25_metas,
                  bm25_initialized, constraints, search_queries,
                  all_candidates, all_docs, idx, escaped, llm_calls, embed_calls,
                  search_calls, bm25_builds, enc >>

(***************************************************************************)
(* Result selection and formatting (lines 497-536).                        *)
(***************************************************************************)
\* the comparison reversed: the candidates at or below the threshold are kept
filtered_results_below(ranked, threshold) ==
  SelectSeq(ranked, LAMBDA x : x.score <= threshold * ScoreDen)

\* lines 498-501
filtered_results(ranked, threshold) ==
  SelectSeq(ranked, LAMBDA x : x.score >= threshold * ScoreDen)

\* the last n_results entries are kept instead of the first
top_results_last(filtered, n) ==
  SubSeq(filtered, Len(filtered) - Len(Take(filtered, n)) + 1, Len(filtered))

\* line 504: filtered_results[:n_results], n_results >= 0
top_results(filtered, n) == Take(filtered, n)

SelectStep ==
  /\ pc = "select"
  /\ LET top == top_results(filtered_results(ranked_candidates, score_threshold),
                            n_results)
     IN  final_metas' = [i \in 1..Len(top) |-> top[i].row]
  /\ pc' = "format"
  /\ UNCHANGED << bm25_failures, search_log, tpc, tlocal, scenario, vector_db, gemini_model, reranker, score_threshold,
                  n_results, llm_c, llm_e, bm25, bm25_docs, bm25_metas,
                  bm25_initialized, constraints, search_queries,
                  all_candidates, all_docs, idx, ranked_candidates, result, exc, escaped,
                  llm_calls, embed_calls, search_calls, rerank_calls,
                  bm25_builds, enc >>

\* lines 521-533
format_item(row) ==
  LET meta == catalog[row]
  IN  [url |-> Get(url_mapping, meta.url, meta.url),
       name |-> meta.name,
       adaptive_support |-> meta.adaptive_support,
       duration |-> meta.duration,
       remote_support |-> meta.remote_support,
       row |-> row]

\* lines 518-536
FormatStep ==
  /\ pc = "format"
  /\ result' = [i \in 1..Len(final_metas) |-> format_item(final_metas[i])]
  /\ pc' = "done"
  /\ UNCHANGED << bm25_failures, search_log, tpc, tlocal, scenario, vector_db, gemini_model, reranker, score_threshold,
                  n_results, llm_c, llm_e, bm25, bm25_docs, bm25_metas,
                  bm25_initialized, constraints, search_queries,
                  all_candidates, all_docs, idx, ranked_candidates, final_metas, exc,
                  escaped, llm_calls, embed_calls, search_calls, rerank_calls,
                  bm25_builds, enc >>

\* lines 538-542
ExceptHandler ==
  /\ pc = "except"
  /\ result' = <<>>
  /\ pc' = "done"
  /\ UNCHANGED << bm25_failures, search_log, tpc, tlocal, scenario, vector_db, gemini_model, reranker, score_threshold,
                  n_results, llm_c, llm_e, bm25, bm25_docs, bm25_metas,
                  bm25_initialized, constraints, search_queries,
                  all_candidates, all_docs, idx, ranked_candidates, final_metas, exc,
                  escaped, llm_calls, embed_calls, search_calls, rerank_calls,
                  bm25_builds, enc >>

(***************************************************************************)
(* One recommend call on a freshly constructed RAGRecommender.             *)
(***************************************************************************)
Init ==
  /\ scenario \in Scenarios
  /\ vector_db \in BOOLEAN
  /\ gemini_model \in BOOLEAN
  /\ reranker \in {"NONE", "REMOTE", "LOCAL"}
  /\ score_threshold \in Thresholds
  /\ n_results \in 0..MaxN
  /\ llm_c \in (IF gemini_model THEN ConstraintOutcomes ELSE {LlmRaise})
  /\ llm_e \in (IF gemini_model THEN ExpansionOutcomes ELSE {LlmRaise})
  /\ bm25 = FALSE
  /\ bm25_docs = <<>>
  /\ bm25_metas = <<>>
  /\ bm25_initialized = FALSE
  /\ pc = "start"
  /\ constraints = EmptyDict
  /\ search_queries = <<>>
  /\ all_candidates = <<>>
  /\ all_docs = <<>>
  /\ idx = 1
  /\ ranked_candidates = <<>>
  /\ final_metas = <<>>
  /\ result = <<>>
  /\ exc = "none"
  /\ escaped = FALSE
  /\ llm_calls = 0
  /\ embed_calls = 0
  /\ search_calls = 0
  /\ rerank_calls = 0
  /\ bm25_builds = 0
  /\ bm25_failures = 0
  /\ search_log = <<>>
  /\ tpc = [t \in Threads |-> "idle"]
  /\ tlocal = [t \in Threads |-> <<>>]
  /\ enc = NoEncode

Next ==
  \/ RecommendBegin
  \/ ExtractStep
  \/ ExpandStep
  \/ EnsureBm25Step
  \/ ExactNameStep
  \/ SemanticStep
  \/ Bm25Step
  \/ RerankStep
  \/ SelectStep
  \/ FormatStep
  \/ ExceptHandler

Spec == Init /\ [][Next]_vars

(***************************************************************************)
(* The two consumers of the language model as pure functions: Init draws   *)
(* the query, the configuration and one oracle outcome over every text of  *)
(* at most MaxTextLen characters; the actions apply the functions.         *)
(***************************************************************************)
OracleAlphabet == {"{", "}", ":", "\n", "k"}

OracleTexts == UNION {[1..n -> OracleAlphabet] : n \in 0..MaxTextLen}

OracleOutcomes ==
  {LlmRaise} \cup {LlmText(t, [job_level |-> "Entry_Level"]) : t \in OracleTexts}

InitOracle ==
  /\ scenario \in Scenarios
  /\ vector_db = TRUE
  /\ gemini_model \in BOOLEAN
  /\ reranker = "NONE"
  /\ score_threshold = -2
  /\ n_results = 0
  /\ llm_c \in (IF gemini_model THEN OracleOutcomes ELSE {LlmRaise})
  /\ llm_e = llm_c
  /\ bm25 = FALSE
  /\ bm25_docs = <<>>
  /\ bm25_metas = <<>>
  /\ bm25_initialized = FALSE
  /\ pc = "fn"
  /\ constraints = EmptyDict
  /\ search_queries = <<>>
  /\ all_candidates = <<>>
  /\ all_docs = <<>>
  /\ idx = 1
  /\ ranked_candidates = <<>>
  /\ final_metas = <<>>
  /\ result = <<>>
  /\ exc = "none"
  /\ escaped = FALSE
  /\ llm_calls = 0
  /\ embed_calls = 0
  /\ search_calls = 0
  /\ rerank_calls = 0
  /\ bm25_builds = 0
  /\ bm25_failures = 0
  /\ search_log = <<>>
  /\ tpc = [t \in Threads |-> "idle"]
  /\ tlocal = [t \in Threads |-> <<>>]
  /\ enc = NoEncode

\* one call of extract_metadata_constraints(query)
OracleExtract ==
  /\ pc = "fn"
  /\ pc' = "fn_extracted"
  /\ LET r == extract_metadata_constraints(gemini_model, llm_c)
     IN  /\ llm_calls' = llm_calls + r.calls
         /\ escaped' = r.exc
         /\ constraints' = r.value
  /\ UNCHANGED << bm25_failures, search_log, tpc, tlocal, scenario, vector_db, gemini_model, reranker, score_threshold,
                  n_results, llm_c, llm_e, bm25, bm25_docs, bm25_metas,
                  bm25_initialized, search_queries, all_candidates, all_docs, idx,
                  ranked_candidates, final_metas, result, exc, embed_calls,
                  search_calls, rerank_calls, bm25_builds, enc >>

\* one call of multi_expand_query(query)
OracleExpand ==
  /\ pc = "fn"
  /\ pc' = "fn_expanded"
  /\ LET r == multi_expand_query(gemini_model, query, llm_e)
     IN  /\ llm_calls' = llm_calls + r.calls
         /\ escaped' = r.exc
         /\ search_queries' = IF r.exc THEN <<>> ELSE r.value
  /\ UNCHANGED << bm25_failures, search_log, tpc, tlocal, scenario, vector_db, gemini_model, reranker, score_threshold,
                  n_results, llm_c, llm_e, bm25, bm25_docs, bm25_metas,
                  bm25_initialized, constraints, all_candidates, all_docs, idx,
                  ranked_candidates, final_metas, result, exc, embed_calls,
                  search_calls, rerank_calls, bm25_builds, enc >>

NextOracle ==
  \/ OracleExtract
  \/ OracleExpand

SpecOracle == InitOracle /\ [][NextOracle]_vars

(***************************************************************************)
(* _ensure_bm25_initialized (lines 111-133) run by several threads: the    *)
(* first requests on one shared instance arrive together and each calls it *)
(* at line 251.  The method takes no lock, so each statement is a step of  *)
(* its own and the threads interleave between statements; self.bm25,       *)
(* self.bm25_docs, self.bm25_metas and self._bm25_initialized are shared.  *)
(***************************************************************************)
request_vars ==
  << scenario, vector_db, gemini_model, reranker, score_threshold, n_results,
     llm_c, llm_e, pc, constraints, search_queries, all_candidates, all_docs, idx,
     ranked_candidates, final_metas, result, exc, escaped, llm_calls,
     embed_calls, search_calls, rerank_calls, search_log, enc >>

InitBuild ==
  /\ scenario \in Scenarios
  /\ vector_db = TRUE
  /\ gemini_model = FALSE
  /\ reranker = "NONE"
  /\ score_threshold = -2
  /\ n_results = 0
  /\ llm_c = LlmRaise
  /\ llm_e = LlmRaise
  /\ bm25 = FALSE
  /\ bm25_docs = <<>>
  /\ bm25_metas = <<>>
  /\ bm25_initialized = FALSE
  /\ pc = "threads"
  /\ constraints = EmptyDict
  /\ search_queries = <<>>
  /\ all_candidates = <<>>
  /\ all_docs = <<>>
  /\ idx = 1
  /\ ranked_candidates = <<>>
  /\ final_metas = <<>>
  /\ result = <<>>
  /\ exc = "none"
  /\ escaped = FALSE
  /\ llm_calls = 0
  /\ embed_calls = 0
  /\ search_calls = 0
  /\ rerank_calls = 0
  /\ bm25_builds = 0
  /\ bm25_failures = 0
  /\ search_log = <<>>
  /\ tpc = [t \in Threads |-> "check"]
  /\ tlocal = [t \in Threads |-> <<>>]
  /\ enc = NoEncode

\* lines 113-114: if self._bm25_initialized: return
TCheck(t) ==
  /\ tpc[t] = "check"
  /\ tpc' = [tpc EXCEPT ![t] = IF bm25_initialized THEN "returned" ELSE "get_all"]
  /\ UNCHANGED << request_vars, bm25, bm25_docs, bm25_metas, bm25_initialized,
                  bm25_builds, bm25_failures, tlocal >>

\* line 118: metadatas, documents = self.vector_db.get_all()
TGetAll(t) ==
  /\ tpc[t] = "get_all"
  /\ bm25_builds' = bm25_builds + 1
  /\ \E out \in GetAllOutcomes :
       IF out = "raise"
         THEN /\ tpc' = [tpc EXCEPT ![t] = "except_bm25"]
              /\ bm25_failures' = bm25_failures + 1
              /\ UNCHANGED tlocal
         ELSE /\ tpc' = [tpc EXCEPT ![t] = "assign_docs"]
              /\ tlocal' = [tlocal EXCEPT ![t] =
                              IF out = "rows" THEN [i \in 1..Len(catalog) |-> i]
                                              ELSE <<>>]
              /\ UNCHANGED bm25_failures
  /\ UNCHANGED << request_vars, bm25, bm25_docs, bm25_metas, bm25_initialized >>

\* line 120: self.bm25_docs = documents
TAssignDocs(t) ==
  /\ tpc[t] = "assign_docs"
  /\ bm25_docs' = tlocal[t]
  /\ tpc' = [tpc EXCEPT ![t] = "assign_metas"]
  /\ UNCHANGED << request_vars, bm25, bm25_metas, bm25_initialized,
                  bm25_builds, bm25_failures, tlocal >>

\* line 121: self.bm25_metas = metadatas
TAssignMetas(t) ==
  /\ tpc[t] = "assign_metas"
  /\ bm25_metas' = tlocal[t]
  /\ tpc' = [tpc EXCEPT ![t] = "construct"]
  /\ UNCHANGED << request_vars, bm25, bm25_docs, bm25_initialized,
                  bm25_builds, bm25_failures, tlocal >>

\* lines 124-125: the corpus is read from self.bm25_docs as it is now;
\* BM25Okapi divides by the corpus size and raises on an empty corpus
TConstruct(t) ==
  /\ tpc[t] = "construct"
  /\ IF bm25_docs = <<>>
       THEN /\ tpc' = [tpc EXCEPT ![t] = "except_bm25"]
            /\ bm25_failures' = bm25_failures + 1
            /\ UNCHANGED bm25
       ELSE /\ tpc' = [tpc EXCEPT ![t] = "set_flag"]
            /\ bm25' = TRUE
            /\ UNCHANGED bm25_failures
  /\ UNCHANGED << request_vars, bm25_docs, bm25_metas, bm25_initialized,
                  bm25_builds, tlocal >>

\* line 127: self._bm25_initialized = True
TSetFlag(t) ==
  /\ tpc[t] = "set_flag"
  /\ bm25_initialized' = TRUE
  /\ tpc' = [tpc EXCEPT ![t] = "returned"]
  /\ UNCHANGED << request_vars, bm25, bm25_docs, bm25_metas, bm25_builds,
                  bm25_failures, tlocal >>

\* line 131: self.bm25 = None
TExceptBm25(t) ==
  /\ tpc[t] = "except_bm25"
  /\ bm25' = FALSE
  /\ tpc' = [tpc EXCEPT ![t] = "except_docs"]
  /\ UNCHANGED << request_vars, bm25_docs, bm25_metas, bm25_initialized,
                  bm25_builds, bm25_failures, tlocal >>

\* line 132: self.bm25_docs = []
TExceptDocs(t) ==
  /\ tpc[t] = "except_docs"
  /\ bm25_docs' = <<>>
  /\ tpc' = [tpc EXCEPT ![t] = "except_metas"]
  /\ UNCHANGED << request_vars, bm25, bm25_metas, bm25_initialized,
                  bm25_builds, bm25_failures, tlocal >>

\* line 133: self.bm25_metas = []
TExceptMetas(t) ==
  /\ tpc[t] = "except_metas"
  /\ bm25_metas' = <<>>
  /\ tpc' = [tpc EXCEPT ![t] = "returned"]
  /\ UNCHANGED << request_vars, bm25, bm25_docs, bm25_initialized,
                  bm25_builds, bm25_failures, tlocal >>

NextBuild ==
  \E t \in Threads :
    \/ TCheck(t)
    \/ TGetAll(t)
    \/ TAssignDocs(t)
    \/ TAssignMetas(t)
    \/ TConstruct(t)
    \/ TSetFlag(t)
    \/ TExceptBm25(t)
    \/ TExceptDocs(t)
    \/ TExceptMetas(t)

SpecBuild == InitBuild /\ [][NextBuild]_vars

(***************************************************************************)
(* HuggingFaceEmbeddingService.encode on the Inference-API path            *)
(* (embedding_service.py, lines 62-95 and 97-185).  A text is its position *)
(* in texts and an embedding is the position of the text it was computed   *)
(* for; the API answers a call with a vector or raises an exception whose  *)
(* message is all the handler looks at.                                    *)
(***************************************************************************)
\* messages of the exceptions client.feature_extraction can raise, each with
\* the kind of failure it reports
ApiErrors ==
  { [kind |-> "timeout", msg |-> <<"R","e","a","d"," ","T","i","m","e","o","u","t">>],
    [kind |-> "504", msg |-> <<"5","0","4"," ","G","a","t","e","w","a","y">>],
    [kind |-> "rate limit", msg |-> <<"R","a","t","e"," ","L","i","m","i","t">>],
    [kind |-> "other", msg |-> <<"4","0","1"," ","A","u","t","h">>],
    [kind |-> "other", msg |-> <<"R","a","t","e","d"," ","5","0","3">>] }

W_timeout == <<"t","i","m","e","o","u","t">>

W_504 == <<"5","0","4">>

W_rate_limit == <<"r","a","t","e"," ","l","i","m","i","t">>

\* lines 150-175 with the handler swallowing every error: the attempt loop
\* goes on, and runs out after the final attempt
on_error_swallow(msg, attempt, max_retries) ==
  [raise |-> FALSE, wait |-> 0]

\* lines 150-175, the except branch of one attempt: whether the exception is
\* raised again, and the seconds slept before the next attempt otherwise
on_error(msg, attempt, max_retries) ==
  LET error_msg == Lower(msg)
  IN  IF Contains(error_msg, W_timeout) \/ Contains(error_msg, W_504)
      THEN IF attempt < max_retries - 1
           THEN [raise |-> FALSE, wait |-> (attempt + 1) * 5]
           ELSE [raise |-> TRUE, wait |-> 0]
      ELSE IF Contains(error_msg, W_rate_limit)
      THEN IF attempt < max_retries - 1
           THEN [raise |-> FALSE, wait |-> (attempt + 1) * 3]
           ELSE [raise |-> TRUE, wait |-> 0]
      ELSE [raise |-> TRUE, wait |-> 0]

\* line 110: batch = texts[i:i + batch_size], as positions in texts
batch_of(e) ==
  [k \in 1..(IF e.i + e.batch_size <= e.n_texts
             THEN e.batch_size ELSE e.n_texts - e.i) |-> e.i + k]

\* lines 62-95 and 106: one call encode(texts, ...), entering
\* _encode_via_inference_api with all_embeddings = []
InitEncode ==
  /\ scenario = 1
  /\ vector_db = TRUE
  /\ gemini_model = FALSE
  /\ reranker = "NONE"
  /\ score_threshold = -2
  /\ n_results = 0
  /\ llm_c = LlmRaise
  /\ llm_e = LlmRaise
  /\ bm25 = FALSE
  /\ bm25_docs = <<>>
  /\ bm25_metas = <<>>
  /\ bm25_initialized = FALSE
  /\ pc = "encode"
  /\ constraints = EmptyDict
  /\ search_queries = <<>>
  /\ all_candidates = <<>>
  /\ all_docs = <<>>
  /\ idx = 1
  /\ ranked_candidates = <<>>
  /\ final_metas = <<>>
  /\ result = <<>>
  /\ exc = "none"
  /\ escaped = FALSE
  /\ llm_calls = 0
  /\ embed_calls = 0
  /\ search_calls = 0
  /\ rerank_calls = 0
  /\ bm25_builds = 0
  /\ bm25_failures = 0
  /\ search_log = <<>>
  /\ tpc = [t \in Threads |-> "idle"]
  /\ tlocal = [t \in Threads |-> <<>>]
  /\ \E n \in 0..MaxTexts, b \in 1..MaxBatchSize, r \in 0..MaxRetries,
        nz \in BOOLEAN :
       enc = [pc |-> "batch", n_texts |-> n, batch_size |-> b,
              max_retries |-> r, normalize |-> nz, i |-> 0, attempt |-> 0,
              all_embeddings |-> <<>>, e |-> "none", wait_time |-> 0,
              tries |-> 0, raised |-> "none"]

encode_rest ==
  << scenario, vector_db, gemini_model, reranker, score_threshold, n_results,
     llm_c, llm_e, bm25, bm25_docs, bm25_metas, bm25_initialized, pc,
     constraints, search_queries, all_candidates, all_docs, idx,
     ranked_candidates, final_metas, result, exc, escaped, llm_calls,
     embed_calls, search_calls, rerank_calls, bm25_builds, bm25_failures,
     search_log, tpc, tlocal >>

\* lines 109-112: the next batch is taken and its attempt loop starts;
\* tries counts the attempts made on the batch
BatchStep ==
  /\ enc.pc = "batch"
  /\ enc.i < enc.n_texts
  /\ enc' = [enc EXCEPT !.pc = "attempt", !.attempt = 0, !.tries = 0]
  /\ UNCHANGED encode_rest

\* lines 112-148: one attempt on the batch succeeds; every text of the batch
\* got its vector, the batch is appended and the attempt loop is left
AttemptSucceeds ==
  /\ enc.pc = "attempt"
  /\ enc.attempt < enc.max_retries
  /\ enc' = [enc EXCEPT !.all_embeddings = enc.all_embeddings \o batch_of(enc),
                        !.tries = enc.tries + 1,
                        !.e = "none",
                        !.i = enc.i + enc.batch_size,
                        !.pc = "batch"]
  /\ UNCHANGED encode_rest

\* lines 112-175: one attempt on the batch fails at one of its texts; the
\* vectors already fetched for the batch are local to the attempt and lost
AttemptFails ==
  /\ enc.pc = "attempt"
  /\ enc.attempt < enc.max_retries
  /\ \E err \in ApiErrors :
       LET h == on_error(err.msg, enc.attempt, enc.max_retries)
       IN  enc' = IF h.raise
                  THEN [enc EXCEPT !.tries = enc.tries + 1,
                                   !.e = err.kind,
                                   !.raised = err.kind,
                                   !.pc = "raised"]
                  ELSE [enc EXCEPT !.tries = enc.tries + 1,
                                   !.e = err.kind,
                                   !.wait_time = h.wait,
                                   !.attempt = enc.attempt + 1]
  /\ UNCHANGED encode_rest

\* line 112: range(max_retries) is used up without break or raise; the
\* batch loop goes on with the next batch
AttemptsExhausted ==
  /\ enc.pc = "attempt"
  /\ enc.attempt >= enc.max_retries
  /\ enc' = [enc EXCEPT !.i = enc.i + enc.batch_size, !.pc = "batch"]
  /\ UNCHANGED encode_rest

\* lines 177-185: the batch loop is over; np.linalg.norm(..., axis=1) of an
\* empty list's array has no axis 1 and raises
ConvertStep ==
  /\ enc.pc = "batch"
  /\ enc.i >= enc.n_texts
  /\ enc' = IF enc.normalize /\ enc.all_embeddings = <<>>
            THEN [enc EXCEPT !.pc = "raised", !.raised = "AxisError"]
            ELSE [enc EXCEPT !.pc = "returned"]
  /\ UNCHANGED encode_rest

NextEncode ==
  \/ BatchStep
  \/ AttemptSucceeds
  \/ AttemptFails
  \/ AttemptsExhausted
  \/ ConvertStep

SpecEncode == InitEncode /\ [][NextEncode]_vars

(***************************************************************************)
(* Properties of recommend, checked under Spec.                            *)
(***************************************************************************)

\* position of the call in program order; the loop positions advance with idx
Rank ==
  CASE pc = "start" -> 0
    [] pc = "extract" -> 1
    [] pc = "expand" -> 2
    [] pc = "bm25" -> 3
    [] pc = "exact" -> 4
    [] pc = "semantic" -> 3 + 2 * idx
    [] pc = "lexical" -> 4 + 2 * idx
    [] pc = "select" -> 20
    [] pc = "format" -> 21
    [] pc = "except" -> 22
    [] pc = "raised" -> 23
    [] pc = "done" -> 24

\* the call has a next statement to execute and the oracle it calls there has
\* an outcome
CanStep ==
  \/ pc \in {"start", "extract", "expand", "bm25", "exact", "select", "format", "except"}
  \/ /\ pc = "semantic"
     /\ idx <= Len(search_queries) + 1
     /\ SearchOutcomes(build_filters(constraints)) # {}
     /\ RerankOutcomes(Len(all_candidates)) # {}
  \/ /\ pc = "lexical"
     /\ idx <= Len(search_queries)
     /\ bm25 => \E s \in bm25_scores(Split(Lower(search_queries[idx]))) : top_indices(s) # {}

\* C1: recommend never lets an exception reach its caller: whatever the
\* oracles do, the call is never left by an exception, an exception raised
\* inside it ends in the empty list, what is returned is a list, and the call
\* terminates: until it has returned it always has a next step, and every
\* step moves it forward in program order.
C1_NeverRaises ==
  /\ [](pc # "raised")
  /\ [](pc # "done" => CanStep)
  /\ [](pc = "done" => DOMAIN result = 1..Len(result))
  /\ []((pc = "done" /\ exc # "none") => result = <<>>)
  /\ [][Rank' > Rank]_vars

\* an oracle raised inside the call and the call returned the empty list
C1_Witness == pc = "done" /\ exc \in {"EmbeddingError", "SearchError", "RerankerError", "IndexError"} /\ result = <<>>

\* C2: when the vector store failed to initialize, every recommend call
\* returns the empty list without calling the constraint extractor, the query
\* expander, the embedding provider, the vector store, the cross-encoder or
\* the lexical-index build.
C2_NoVectorDbEmpty ==
  ~vector_db =>
    /\ pc \in {"start", "done"}
    /\ result = <<>>
    /\ exc = "none"
    /\ llm_calls = 0 /\ embed_calls = 0 /\ search_calls = 0
    /\ rerank_calls = 0 /\ bm25_builds = 0
    /\ constraints = EmptyDict /\ search_queries = <<>>

C2_Witness == ~vector_db /\ pc = "done" /\ result = <<>>

NoDuplicateUrl(pool) ==
  \A i, j \in 1..Len(pool) : i # j => pool[i].url # pool[j].url

IsPrefix(a, b) == Len(a) <= Len(b) /\ SubSeq(b, 1, Len(a)) = a

\* C3: the candidate pool holds at most one entry per url, and an entry,
\* once written, keeps the metadata and document of its first sighting: every
\* step leaves the existing entries as they are and only appends.
C3_DedupFirstWins ==
  /\ [](NoDuplicateUrl(all_candidates))
  /\ [][IsPrefix(all_candidates, all_candidates')]_vars

\* catalog 3 holds two rows under url u6, both matched by name; all four
\* expanded queries were searched in both channels and row 1 still holds u6
C3_Witness ==
  /\ scenario = 3
  /\ bm25
  /\ Len(search_queries) = 4
  /\ idx = 5
  /\ is_match(Lower(catalog[2].name), Lower(query), TokenSet(Lower(query)))
  /\ catalog[2].url = "u6"
  /\ all_candidates # <<>>
  /\ all_candidates[1] = [url |-> "u6", row |-> 1]
  /\ Len(all_candidates) = 2

(***************************************************************************)
(* Properties of the language-model consumers, checked under SpecOracle.   *)
(***************************************************************************)

\* C4: multi_expand_query returns between 1 and 4 strings and element 0 is
\* exactly the input query, for every language-model outcome.
C4_ExpansionShape ==
  pc = "fn_expanded" =>
    /\ ~escaped
    /\ Len(search_queries) \in 1..4
    /\ search_queries[1] = query
    /\ \A i \in 1..Len(search_queries) :
         DOMAIN search_queries[i] = 1..Len(search_queries[i])

\* three variants were parsed and follow the original query
C4_Witness ==
  /\ pc = "fn_expanded"
  /\ Len(search_queries) = 4
  /\ search_queries[1] = query
  /\ search_queries[2] = <<"k">>
  /\ search_queries[3] = <<>>

\* C5: when the language model is not configured or its call raises,
\* multi_expand_query returns the single-element list [query].
C5_ExpansionFailure ==
  (pc = "fn_expanded" /\ (~gemini_model \/ llm_e.kind = "raise")) =>
    search_queries = <<query>>

C5_Witness ==
  pc = "fn_expanded" /\ gemini_model /\ llm_e.kind = "raise" /\ llm_calls = 1

\* some substring of the text is a JSON object
HasJsonObject(text) ==
  \E i, j \in 1..Len(text) : i < j /\ IsObject(NoWs(SubSeq(text, i, j)))

\* C6: extract_metadata_constraints never raises; it returns {} when the
\* language model is not configured, raises, or returns text that holds no
\* JSON object; and it invokes the language model at most once.
C6_ExtractNeverRaises ==
  pc = "fn_extracted" =>
    /\ ~escaped
    /\ llm_calls <= 1
    /\ (~gemini_model \/ llm_c.kind = "raise" \/ ~HasJsonObject(llm_c.text))
         => constraints = EmptyDict
    /\ ~gemini_model => llm_calls = 0

\* the text opens a brace that never closes: rindex raises inside the try
C6_Witness ==
  /\ pc = "fn_extracted"
  /\ gemini_model
  /\ llm_c.kind = "text"
  /\ "{" \in Range(llm_c.text)
  /\ "}" \notin Range(llm_c.text)
  /\ constraints = EmptyDict
  /\ llm_calls = 1

\* number of lines of the stripped text that hold a colon
VariantLines(text) ==
  LET t == Strip(text)
      starts == {1} \cup {i + 1 : i \in {j \in 1..Len(t) : t[j] = "\n"}}
      LineEnd(b) == SetMin({j \in b..Len(t) : t[j] = "\n"} \cup {Len(t) + 1}) - 1
  IN  Cardinality({b \in starts : \E j \in b..LineEnd(b) : t[j] = ":"})

\* C7 as stated: malformed language-model output is treated as an unavailable
\* oracle by both consumers: text without a JSON object gives {} and a text
\* with fewer than three variant lines gives [query].
C7_MalformedAsUnavailable ==
  /\ (pc = "fn_extracted" /\ gemini_model /\ llm_c.kind = "text"
        /\ ~HasJsonObject(llm_c.text)) => constraints = EmptyDict
  /\ (pc = "fn_expanded" /\ gemini_model /\ llm_e.kind = "text"
        /\ VariantLines(llm_e.text) < 3) => search_queries = <<query>>

\* C7 amended: text without a JSON object gives {} as an unavailable oracle
\* does; a text with fewer than three variant lines gives four copies of the
\* original query, [query, query, query, query], not [query].
C7_MalformedFallback ==
  /\ (pc = "fn_extracted" /\ gemini_model /\ llm_c.kind = "text"
        /\ ~HasJsonObject(llm_c.text)) => constraints = EmptyDict
  /\ (pc = "fn_expanded" /\ gemini_model /\ llm_e.kind = "text"
        /\ VariantLines(llm_e.text) < 3)
       => search_queries = <<query, query, query, query>>

\* the language model answered two variant lines only
C7_Witness ==
  /\ pc = "fn_expanded"
  /\ gemini_model
  /\ llm_e.kind = "text"
  /\ VariantLines(llm_e.text) = 2
  /\ search_queries = <<query, query, query, query>>

(***************************************************************************)
(* Properties of candidate gathering and selection, checked under Spec.    *)
(***************************************************************************)

\* the exact-name predicate of the specification, rules (a) to (d), for a
\* lowercased name n and a lowercased query q
NameRule(n, q) ==
  LET common == TokenSet(q) \cap TokenSet(n)
      words == Cardinality(TokenSet(n))
  IN  \/ Len(n) > 3 /\ Contains(q, n)
      \/ common \cap TARGET_KEYWORDS # {}
      \/ words \in 1..2 /\ Cardinality(common) >= 1
      \/ words >= 1 /\ 2 * Cardinality(common) >= words
      \/ Cardinality(common) >= 2

\* the predicate for one catalog row and the query of the request
NameRuleMatch(row) == NameRule(Lower(catalog[row].name), Lower(query))

\* candidate gathering is over: the pool is what the reranker is given
PoolComplete ==
  /\ vector_db
  /\ \/ pc = "semantic" /\ idx > Len(search_queries)
     \/ pc \in {"select", "format"}

ZeroScoreRanking ==
  sort_desc(combine(constraints, all_candidates, Zeros(Len(all_candidates))))

RowsOf(cands) == [i \in 1..Len(cands) |-> cands[i].row]

Returned == pc = "done" /\ vector_db /\ exc = "none"

\* C9: without a cross-encoder every candidate takes oracle score 0, the
\* candidates are ordered by keyword boost + name boost + seniority penalty,
\* and the threshold and the truncation to n_results are applied to those
\* scores.
C9_BoostRankingWithoutReranker ==
  (Returned /\ reranker = "NONE" /\ all_candidates # <<>>) =>
    final_metas = RowsOf(top_results(filtered_results(ZeroScoreRanking, score_threshold),
                                     n_results))

\* the final scores of the request: those of the reranker, or the boost-only
\* scores when there is no cross-encoder
FinalRanking == IF reranker = "NONE" THEN ZeroScoreRanking ELSE ranked_candidates

\* C10: every returned item has a final score >= score_threshold, at most
\* n_results items are returned, they are the highest-ranked candidates that
\* clear the threshold, in rank order, and the result is empty when no
\* candidate clears the threshold.
C10_ResultSelection ==
  (Returned /\ all_candidates # <<>>) =>
    LET clearing == SelectSeq(FinalRanking,
                              LAMBDA x : x.score >= score_threshold * ScoreDen)
    IN  /\ Len(result) <= n_results
        /\ \A i \in 1..Len(result) :
             \E j \in 1..Len(FinalRanking) :
               /\ FinalRanking[j].row = result[i].row
               /\ FinalRanking[j].score >= score_threshold * ScoreDen
        /\ [i \in 1..Len(result) |-> result[i].row] = Take(RowsOf(clearing), n_results)
        /\ clearing = <<>> => result = <<>>

\* the query shares no token with any document or name of the catalog, and
\* no name satisfies the exact-name predicate
NoLexicalOverlap ==
  \A row \in 1..Len(catalog) :
    /\ query_keywords \cap doc_keywords_of[scenario][row] = {}
    /\ query_keywords \cap name_keywords_of[scenario][row] = {}
    /\ ~NameRuleMatch(row)

\* C11: for a query that shares no token with any catalog document or name
\* and with query expansion disabled, recommend returns the empty list and
\* not an error.
C11_EmptyResult ==
  (pc = "done" /\ vector_db /\ ~gemini_model /\ NoLexicalOverlap) =>
    result = <<>>

\* the embedding call or the vector-store search of an iteration raised
RetrievalFailed == exc \in {"EmbeddingError", "SearchError"}

\* C13: if the embedding call or the vector-store search raises while one
\* expanded query is processed, the failure is confined to that iteration:
\* the iteration goes on to the lexical channel and the remaining queries,
\* the request is not handed to the outer handler, and the candidates
\* gathered are still reranked and returned.
C13_FailureIsolation ==
  /\ [][(pc = "semantic" /\ idx <= Len(search_queries)) => pc' = "lexical"]_vars
  /\ [](RetrievalFailed => pc # "except")
  /\ []((pc = "done" /\ RetrievalFailed /\ all_candidates # <<>>) =>
          /\ reranker # "NONE" => rerank_calls = 1
          /\ (n_results > 0 /\ reranker = "NONE") => result # <<>>)

\* thresholds from below every final score of the model to above every one
ThresholdRange == -8..9

\* final_metas as lines 498-516 compute it from the ranking of the request
\* under threshold t
ResultWith(t) ==
  IF reranker = "NONE"
    THEN no_reranker_metas(all_candidates, n_results)
    ELSE RowsOf(top_results(filtered_results(ranked_candidates, t), n_results))

\* C14: for a fixed candidate pool, fixed final scores and fixed n_results,
\* the result list produced with threshold t2 has no more items than the one
\* produced with t1 whenever t1 <= t2.
C14_ThresholdMonotone ==
  pc = "format" =>
    LET sizes == {<<t, Len(ResultWith(t))>> : t \in ThresholdRange}
    IN  /\ final_metas = ResultWith(score_threshold)
        /\ \A a, b \in sizes : a[1] <= b[1] => b[2] <= a[2]

\* raising the threshold from -2 to 2 removes some but not all of the items
C14_Witness ==
  /\ pc = "format"
  /\ reranker # "NONE"
  /\ final_metas = ResultWith(score_threshold)
  /\ Len(ResultWith(2)) > 0
  /\ Len(ResultWith(2)) < Len(ResultWith(-2))

\* the cross-encoder is unavailable (none configured, or the remote call
\* failed and every candidate took score 0) or it gave every candidate of the
\* pool the same score
EqualOracleScores ==
  \/ reranker = "NONE"
  \/ /\ Len(ranked_candidates) = Len(all_candidates)
     /\ \A i, j \in 1..Len(ranked_candidates) :
          ranked_candidates[i].original_score = ranked_candidates[j].original_score

\* the score every candidate took from the cross-encoder
CommonOracleScore ==
  IF ranked_candidates = <<>> THEN 0 ELSE ranked_candidates[1].original_score

\* C15: catalog {Python Programming (45, Entry_Level), Senior Java Architect
\* (90, Manager_Senior), Customer Service Rep (40, General)}, query "entry
\* level python developer", constraints {job_level: Entry_Level}, a
\* cross-encoder that is unavailable or scores all candidates equally: the
\* returned list has Python Programming first and Senior Java Architect last
\* or absent.  Python Programming is taken to be retrieved, asked for
\* (n_results >= 1) and above the threshold.
C15_EndToEnd ==
  ( /\ Returned
    /\ scenario = 1
    /\ constraints = [job_level |-> "Entry_Level"]
    /\ EqualOracleScores
    /\ "u1" \in PoolUrls(all_candidates)
    /\ n_results >= 1
    /\ boosted_score(constraints, 1, CommonOracleScore) >= score_threshold * ScoreDen )
  => /\ result # <<>>
     /\ result[1].name = N_Python
     /\ \A i \in 1..Len(result) : result[i].name = N_SeniorJava => i = Len(result)

\* candidate gathering is over and the reranking step is next
CandidatesGathered == pc = "semantic" /\ idx > Len(search_queries)

\* C16: a recommend call on an initialized vector store passes through
\* constraint extraction, query expansion, candidate gathering, reranking,
\* selection and return in that order, each at most once and one after the
\* other; a failure of constraint extraction, query expansion or reranking
\* never diverts the request to the error handler or skips a later step.
\* (Skipping reranking and selection for an empty pool or a missing
\* cross-encoder is not counted as a diversion here.)
C16_StepOrder ==
  /\ [][pc = "extract" => pc' = "expand"]_vars
  /\ [][pc = "expand" => pc' = "bm25"]_vars
  /\ [][CandidatesGathered => pc' \in {"select", "format", "done"}]_vars
  /\ [][pc = "select" => pc' = "format"]_vars
  /\ [][pc = "format" => pc' = "done"]_vars
  /\ [][Rank' > Rank]_vars

\* names of one to four words, single-spaced, over words that occur in the
\* queries ("senior", "lead", "verbal"), inside a query word ("java", "script")
\* or nowhere ("exam")
SampleWords ==
  { <<"s", "e", "n", "i", "o", "r">>,
    <<"l", "e", "a", "d">>,
    <<"v", "e", "r", "b", "a", "l">>,
    <<"j", "a", "v", "a">>,
    <<"s", "c", "r", "i", "p", "t">>,
    <<"e", "x", "a", "m">> }

RECURSIVE JoinWords(_)
JoinWords(ws) ==
  IF Len(ws) = 1 THEN ws[1]
  ELSE ws[1] \o <<" ">> \o JoinWords(Tail(ws))

SampleNames ==
  {JoinWords(ws) : ws \in UNION {[1..n -> SampleWords] : n \in 1..4}}

\* is_match decides as the predicate does, for every sample name and every
\* query of the model
RuleAgreesOnSamples ==
  \A s \in Scenarios : \A n \in SampleNames :
    is_match(n, Lower(Queries[s]), TokenSet(Lower(Queries[s])))
      <=> NameRule(n, Lower(Queries[s]))

\* the row has a name and a url
Named(row) == catalog[row].name # <<>> /\ catalog[row].url # ""

\* C17: the exact-name pass adds a catalog item (having a name and a url) if
\* and only if its name satisfies the exact-name predicate, rules (a) to (d),
\* for the query.  The pass runs over the snapshot of the lexical index; an
\* item whose url an earlier matching item already holds is the same
\* candidate and is not written again.
C17_ExactNameRule ==
  (pc = "semantic" /\ idx = 1) =>
    /\ RuleAgreesOnSamples
    /\ \A i \in 1..Len(bm25_metas) :
         LET row == bm25_metas[i]
         IN  Named(row) =>
               ( [url |-> catalog[row].url, row |-> row] \in Range(all_candidates)
                 <=> /\ NameRuleMatch(row)
                     /\ ~ \E j \in 1..(i - 1) :
                            /\ Named(bm25_metas[j])
                            /\ NameRuleMatch(bm25_metas[j])
                            /\ catalog[bm25_metas[j]].url = catalog[row].url )
    /\ \A k \in 1..Len(all_candidates) :
         \E i \in 1..Len(bm25_metas) :
           bm25_metas[i] = all_candidates[k].row /\ Named(bm25_metas[i])

\* query "Senior JavaScript  lead": "Java" is added by the phrase rule alone
\* (no common token), "Lead Exam" by the short-name rule alone, and "Java
\* Senior Lead Exam" matches but its url is already held by "Java"
C17_Witness ==
  /\ pc = "semantic" /\ idx = 1
  /\ scenario = 3
  /\ all_candidates = << [url |-> "u6", row |-> 1], [url |-> "u7", row |-> 3] >>
  /\ query_keywords \cap name_keywords_of[3][1] = {}
  /\ query_keywords \cap name_keywords_of[3][3] \cap TARGET_KEYWORDS = {}
  /\ NameRuleMatch(2)

\* the store filters the specification derives from the constraints:
\* seniority == band, duration <= X, remote == required, adaptive == required
ExtractedFilters ==
  LET c == constraints
      level == IF "job_level" \in DOMAIN c /\ c.job_level # ""
                 THEN [job_level |-> c.job_level] ELSE EmptyDict
      duration == IF "max_duration_minutes" \in DOMAIN c /\ c.max_duration_minutes > 0
                    THEN [max_duration |-> c.max_duration_minutes] ELSE EmptyDict
      remote == IF "requires_remote" \in DOMAIN c /\ c.requires_remote = TRUE
                  THEN [remote_support |-> Yes] ELSE EmptyDict
      adaptive == IF "requires_adaptive" \in DOMAIN c /\ c.requires_adaptive = TRUE
                    THEN [adaptive_support |-> Yes] ELSE EmptyDict
  IN  level @@ duration @@ remote @@ adaptive

\* the semantic part of a loop iteration has issued its searches
SearchesIssued ==
  \/ pc = "lexical"
  \/ pc = "except" /\ exc = "SearchError"

\* C18: for each expanded query the semantic search is issued once with all
\* extracted filters; a second search is issued if and only if the first
\* returned zero items and a job_level filter was present, and it carries the
\* same filters minus job_level; there is no third search, and an empty
\* result under duration/remote/adaptive filters alone is not retried.
C18_SeniorityFallback ==
  SearchesIssued =>
    /\ Len(search_log) \in 1..2
    /\ search_log[1].filters = ExtractedFilters
    /\ Len(search_log) = 2
         <=> /\ ~search_log[1].raised
             /\ search_log[1].found = 0
             /\ "job_level" \in DOMAIN ExtractedFilters
    /\ Len(search_log) = 2 =>
         search_log[2].filters =
           [k \in DOMAIN ExtractedFilters \ {"job_level"} |-> ExtractedFilters[k]]

\* seniority General and remote testing were asked for and nothing matched:
\* the retry kept the remote filter and dropped the seniority filter
C18_Witness ==
  /\ pc = "lexical"
  /\ Len(search_log) = 2
  /\ search_log[1].found = 0
  /\ DOMAIN search_log[1].filters = {"job_level", "remote_support"}
  /\ DOMAIN search_log[2].filters = {"remote_support"}
  /\ search_log[2].found > 0

\* document i is among the retrieval_k best of the score vector s
AmongTopK(s, i) ==
  Cardinality({j \in DOMAIN s : s[j] > s[i]}) < retrieval_k

\* the row satisfies every active constraint of the request
ConstraintsSatisfied(row) ==
  LET c == constraints
      meta == catalog[row]
  IN  /\ ("max_duration_minutes" \in DOMAIN c /\ c.max_duration_minutes > 0)
           => meta.duration <= c.max_duration_minutes
      /\ ("requires_remote" \in DOMAIN c /\ c.requires_remote = TRUE)
           => Lower(meta.remote_support) = yes_lc
      /\ ("requires_adaptive" \in DOMAIN c /\ c.requires_adaptive = TRUE)
           => Lower(meta.adaptive_support) = yes_lc
      /\ "job_level" \in DOMAIN c
           => /\ ~(c.job_level = "Entry_Level" /\ meta.job_level = "Manager_Senior")
              /\ ~(c.job_level = "Manager_Senior" /\ meta.job_level = "Entry_Level")
              /\ job_level_penalty(c, row) = 0

Q == query_keywords_of[scenario]

D(row) == doc_keywords_of[scenario][row]

Nm(row) == name_keywords_of[scenario][row]

\* the band the request asks for, "" when it asks for none
RequestedBand == IF "job_level" \in DOMAIN constraints THEN constraints.job_level ELSE ""

\* -3.0 exactly on an Entry_Level/Manager_Senior mismatch, in either order
Penalty(row) ==
  IF \/ RequestedBand = "Entry_Level" /\ catalog[row].job_level = "Manager_Senior"
     \/ RequestedBand = "Manager_Senior" /\ catalog[row].job_level = "Entry_Level"
    THEN -3
    ELSE 0

\* oracle score + keyword boost + name boost, times |Q| (times 1 when Q is
\* empty, both ratios then being 0)
Unpenalised(cand) ==
  IF Q = {}
    THEN cand.original_score
    ELSE cand.original_score * Cardinality(Q)
           + 3 * Cardinality(Q \cap D(cand.row))
           + 5 * Cardinality(Q \cap Nm(cand.row))

\* C20: for every reranked candidate, final score = oracle score
\* + 3.0 * |Q n D| / |Q| + 5.0 * |Q n Nm| / |Q| + penalty, both ratios being 0
\* when Q is empty, and penalty being -3.0 exactly when the requested band is
\* Entry_Level and the candidate is Manager_Senior or the other way round;
\* so under Entry_Level a Manager_Senior candidate scores exactly 3.0 lower
\* than without the constraint and a General candidate scores the same.
\* Scores are exact rationals, held times |Q|.
C20_FinalScore ==
  \A i \in DOMAIN ranked_candidates :
    LET cand == ranked_candidates[i]
        den == IF Q = {} THEN 1 ELSE Cardinality(Q)
    IN  /\ cand.score = Unpenalised(cand) + Penalty(cand.row) * den
        /\ (RequestedBand = "Entry_Level" /\ catalog[cand.row].job_level = "Manager_Senior")
             => cand.score = Unpenalised(cand) - 3 * den
        /\ catalog[cand.row].job_level = "General" => cand.score = Unpenalised(cand)

\* Entry_Level is requested and a Manager_Senior and a General candidate were
\* reranked with a non-zero oracle score, the General one sharing a token
\* with the query: the first carries the penalty, the second does not
C20_Witness ==
  /\ pc = "select"
  /\ RequestedBand = "Entry_Level"
  /\ \E i, j \in DOMAIN ranked_candidates :
       /\ catalog[ranked_candidates[i].row].job_level = "Manager_Senior"
       /\ catalog[ranked_candidates[j].row].job_level = "General"
       /\ Q \cap D(ranked_candidates[j].row) # {}
       /\ ranked_candidates[i].original_score # 0
       /\ ranked_candidates[i].score = Unpenalised(ranked_candidates[i]) - 3 * Cardinality(Q)
       /\ ranked_candidates[j].score = Unpenalised(ranked_candidates[j])

\* where a catalog row sits in the candidate pool
PoolPos(row) == CHOOSE k \in 1..Len(all_candidates) : all_candidates[k].row = row

\* a before b: higher final score, or the same score and earlier in the pool
RankedBefore(a, b) ==
  \/ a.score > b.score
  \/ a.score = b.score /\ PoolPos(a.row) < PoolPos(b.row)

\* C21: the returned order is by final score descending, and candidates with
\* equal final scores appear in the order in which they first entered the
\* candidate pool; that order is total, so for fixed query, constraints,
\* expansion, retrieval results and cross-encoder scores the list is unique.
C21_StableOrder ==
  (Returned /\ all_candidates # <<>>) =>
    /\ \A i, j \in 1..Len(FinalRanking) :
         i < j => RankedBefore(FinalRanking[i], FinalRanking[j])
    /\ \A i, j \in 1..Len(result) :
         i < j =>
           \E a, b \in 1..Len(FinalRanking) :
             /\ FinalRanking[a].row = result[i].row
             /\ FinalRanking[b].row = result[j].row
             /\ RankedBefore(FinalRanking[a], FinalRanking[b])

\* C22: reranking produces exactly one final score per candidate of the
\* deduplicated pool: whatever score list the cross-encoder returns, shorter
\* or longer than the document list included, the ranked candidates are the
\* candidates of the pool, as many and the same rows, and the boost loop does
\* not fail on the list.
C22_OneScorePerCandidate ==
  (reranker # "NONE" /\ rerank_calls = 1) =>
    /\ exc # "IndexError"
    /\ pc = "select" =>
         /\ Len(ranked_candidates) = Len(all_candidates)
         /\ {ranked_candidates[i].row : i \in DOMAIN ranked_candidates}
              = {all_candidates[i].row : i \in DOMAIN all_candidates}

\* the cross-encoder call failed: it raised or timed out, answered with a
\* status other than 200, or returned an empty score list
RerankFailed(out) == out.kind # "scores" \/ out.scores = <<>>

\* C23: if the cross-encoder call fails at request time (timeout, exception,
\* non-200 response or empty score list, for the remote as well as the
\* locally loaded model), the failure is caught locally, every candidate gets
\* oracle score 0, and the request goes on to rank the candidates by the
\* boost terms instead of failing or returning an empty list.
C23_RerankFailureCaught ==
  /\ exc # "RerankerError"
  /\ (pc = "semantic" /\ idx > Len(search_queries) /\ all_candidates # <<>>
        /\ reranker # "NONE") =>
       \A out \in RerankOutcomes(Len(all_candidates)) :
         RerankFailed(out) =>
           rerank_scores(out, Len(all_candidates))
             = [exc |-> FALSE, value |-> Zeros(Len(all_candidates))]

\* the rows the exact-name pass adds for each (catalog, query) pair, from the
\* catalog and the query alone: the first row per url among the named rows
\* whose name satisfies the exact-name predicate
name_pass_rows_of ==
  [s \in Scenarios |->
     LET hit == {r \in DOMAIN Catalogs[s] :
                   /\ Catalogs[s][r].name # <<>>
                   /\ Catalogs[s][r].url # ""
                   /\ NameRule(Lower(Catalogs[s][r].name), Lower(Queries[s]))}
     IN  {r \in hit : \A r2 \in hit : Catalogs[s][r2].url = Catalogs[s][r].url => r <= r2}]

\* C25: the exact-name pass is independent of the extracted constraints: for
\* a fixed query and catalog the set of items it adds to the pool is the same
\* for every constraints value, so an item matched by name enters the pool
\* even when it exceeds the duration ceiling, lacks required remote or
\* adaptive support, or mismatches the requested seniority band.
C25_NamePassIgnoresConstraints ==
  (pc = "semantic" /\ idx = 1) =>
    {all_candidates[k].row : k \in DOMAIN all_candidates}
      = IF bm25_metas # <<>> THEN name_pass_rows_of[scenario] ELSE {}

\* a 40 minute ceiling and adaptive support are required and the pass has
\* added "Python Programming", 45 minutes long and without adaptive support
C25_Witness ==
  /\ pc = "semantic" /\ idx = 1
  /\ scenario = 1
  /\ DOMAIN constraints # {}
  /\ \E k \in DOMAIN all_candidates :
       /\ ~ConstraintsSatisfied(all_candidates[k].row)
       /\ catalog[all_candidates[k].row].duration > Get(constraints, "max_duration_minutes", 100)
       /\ Lower(catalog[all_candidates[k].row].adaptive_support) # yes_lc

\* the rows recommend returns from the pool and the ranking of the request
\* when it is asked for n results
ResultRowsFor(n) ==
  IF reranker = "NONE"
    THEN no_reranker_metas(all_candidates, n)
    ELSE RowsOf(top_results(filtered_results(ranked_candidates, score_threshold), n))

\* the result counts compared: from none to more than any request asks for
CountRange == 0..(MaxN + 1)

\* the candidates selection can return: the result of a request for as many
\* items as the pool holds
Selectable == ResultRowsFor(Len(all_candidates))

\* document i of the index is strictly among the retrieval_k best of s
StrictlyTopK(s, i) ==
  Cardinality({j \in DOMAIN s : j # i /\ s[j] >= s[i]}) < retrieval_k

\* C26: n_results affects only the final truncation: for fixed oracle outputs
\* and 0 <= n <= m, recommend(query, n) is a prefix of recommend(query, m) and
\* has length min(n, number of selectable candidates); the retrieval width is
\* retrieval_k whatever n_results is: a search returns at most retrieval_k
\* rows and the lexical channel takes every document strictly among the
\* retrieval_k best that satisfies the constraints and has a url.
C26_OnlyTruncation ==
  [][ /\ pc = "format" =>
           LET res == {<<n, ResultRowsFor(n)>> : n \in CountRange}
           IN  /\ final_metas = ResultRowsFor(n_results)
               /\ \A a, b \in res :
                    a[1] <= b[1] =>
                      /\ IsPrefix(a[2], b[2])
                      /\ Len(a[2]) = IF a[1] < Len(Selectable) THEN a[1]
                                                               ELSE Len(Selectable)
      /\ pc = "semantic" =>
           \A k \in DOMAIN search_log' :
             "found" \in DOMAIN search_log'[k] => search_log'[k].found <= retrieval_k
      /\ (pc = "lexical" /\ bm25) =>
           LET s == search_log'[Len(search_log')].scores
           IN  \A i \in DOMAIN s :
                 ( /\ StrictlyTopK(s, i)
                   /\ ConstraintsSatisfied(bm25_metas[i])
                   /\ catalog[bm25_metas[i]].url # "" )
                 => \E k \in DOMAIN all_candidates' :
                      all_candidates'[k].url = catalog[bm25_metas[i]].url ]_vars

\* one result was asked for and two candidates were selectable: the second is
\* cut off, and the pool of that request holds more rows than were asked for
C26_Witness ==
  /\ pc = "done"
  /\ exc = "none"
  /\ reranker # "NONE"
  /\ n_results = 1
  /\ Len(Selectable) = 2
  /\ Len(all_candidates) = 3
  /\ [i \in 1..Len(result) |-> result[i].row] = Take(Selectable, 1)

\* the rows a step wrote into the pool
AddedRows == {all_candidates'[k].row : k \in (Len(all_candidates) + 1)..Len(all_candidates')}

\* the semantic channel under the band General: the first search carries
\* job_level = General
GeneralFilterSent ==
  (pc = "semantic" /\ idx <= Len(search_queries) /\ RequestedBand = "General"
     /\ search_log' # <<>>) =>
    /\ "job_level" \in DOMAIN search_log'[1].filters
    /\ search_log'[1].filters.job_level = "General"

\* the lexical channel under the band General applies no seniority filter:
\* every document strictly among the retrieval_k best that has a url and
\* passes the duration, remote and adaptive checks is in the pool, whatever
\* its band
LexicalIgnoresGeneral ==
  (pc = "lexical" /\ bm25 /\ RequestedBand = "General") =>
    LET s == search_log'[Len(search_log')].scores
    IN  \A i \in DOMAIN s :
          ( /\ StrictlyTopK(s, i)
            /\ catalog[bm25_metas[i]].url # ""
            /\ Get(constraints, "max_duration_minutes", 0) # 0
                 => catalog[bm25_metas[i]].duration <= constraints.max_duration_minutes
            /\ Get(constraints, "requires_remote", FALSE)
                 => Lower(catalog[bm25_metas[i]].remote_support) = yes_lc
            /\ Get(constraints, "requires_adaptive", FALSE)
                 => Lower(catalog[bm25_metas[i]].adaptive_support) = yes_lc )
          => \E k \in DOMAIN all_candidates' :
               all_candidates'[k].url = catalog[bm25_metas[i]].url

\* the reranker under the band General applies no penalty
NoPenaltyUnderGeneral ==
  (pc = "select" /\ RequestedBand = "General") =>
    \A i \in DOMAIN ranked_candidates :
      ranked_candidates[i].score = Unpenalised(ranked_candidates[i])

\* the semantic step added an item of another band than General
OtherBandAdded == \E r \in AddedRows : catalog[r].job_level # "General"

\* C27 as stated: when the extracted seniority band is General, the semantic
\* channel still sends job_level = General to the vector store as an equality
\* filter, so Entry_Level and Manager_Senior items are excluded from semantic
\* results unless the zero-result fallback fires, while the lexical channel
\* applies no seniority filter and the reranker applies no penalty.
C27_GeneralAsStated ==
  [][ /\ GeneralFilterSent
      /\ (pc = "semantic" /\ idx <= Len(search_queries) /\ RequestedBand = "General"
            /\ OtherBandAdded) => Len(search_log') = 2
      /\ LexicalIgnoresGeneral
      /\ NoPenaltyUnderGeneral ]_vars

\* C27, amended: as above, and Entry_Level and Manager_Senior items are
\* excluded from semantic results unless the zero-result fallback fires or
\* the store's search failed and answered with its unfiltered fallback rows.
C27_GeneralTreatment ==
  [][ /\ GeneralFilterSent
      /\ (pc = "semantic" /\ idx <= Len(search_queries) /\ RequestedBand = "General"
            /\ OtherBandAdded) =>
           \/ Len(search_log') = 2
           \/ \E s \in unfiltered_fallback : all_candidates' = AddAll(all_candidates, s)
      /\ LexicalIgnoresGeneral
      /\ NoPenaltyUnderGeneral ]_vars

\* the band is General: the search was sent with job_level = General, found
\* nothing and was retried without the band, and the lexical channel then
\* added "Senior Java Architect", a Manager_Senior item
C27_Witness ==
  /\ pc = "semantic"
  /\ scenario = 1
  /\ RequestedBand = "General"
  /\ Len(search_log) = 3
  /\ search_log[1].filters.job_level = "General"
  /\ search_log[3].lexical = <<2>>
  /\ catalog[2].job_level = "Manager_Senior"

\* the expanded queries whose iteration has begun
QueriesProcessed ==
  CASE pc = "lexical" -> idx
    [] pc = "semantic" -> idx - 1
    [] pc \in {"start", "extract", "expand", "bm25", "exact"} -> 0
    [] OTHER -> embed_calls

\* C28: oracle calls per request are bounded: within one recommend call the
\* language model is invoked at most twice (once by the constraint extractor,
\* once by the query expander), the embedding provider exactly once per
\* expanded query processed (at most 4), the vector-store search at most
\* twice per expanded query (at most 8), and the cross-encoder at most once.
C28_OracleCallBounds ==
  /\ llm_calls <= 2
  /\ pc = "expand" => llm_calls <= 1
  /\ embed_calls = QueriesProcessed
  /\ embed_calls <= 4
  /\ pc \in {"select", "format", "done"} /\ exc = "none" /\ all_candidates # <<>>
       => embed_calls = Len(search_queries)
  /\ search_calls <= 2 * embed_calls
  /\ search_calls <= 8
  /\ rerank_calls <= 1

\* a request that reached every bound: two language-model calls, four
\* expanded queries, each searched twice, and one cross-encoder call
C28_Witness ==
  /\ pc = "done"
  /\ exc = "none"
  /\ llm_calls = 2
  /\ Len(search_queries) = 4
  /\ embed_calls = 4
  /\ search_calls = 8
  /\ rerank_calls = 1
  /\ result # <<>>

\* C29: at every point of candidate gathering the two maps all_candidates
\* and all_docs have exactly the same keys in the same insertion order and no
\* key is a missing or empty url, so the i-th metadata and the i-th document
\* text passed to the reranker always belong to the same catalog item.
C29_PoolMapsAligned ==
  /\ Len(all_docs) = Len(all_candidates)
  /\ \A i \in 1..Len(all_candidates) :
       /\ all_docs[i].url = all_candidates[i].url
       /\ all_candidates[i].url # ""
       /\ all_candidates[i].url = catalog[all_candidates[i].row].url
       /\ all_docs[i].doc = all_candidates[i].row
  /\ \A i, j \in 1..Len(all_docs) : all_docs[i].url = all_docs[j].url => i = j

\* the verbal catalog, whose third item has no url: the pool handed to the
\* reranker holds the two items that have one, and all_docs holds their
\* documents in the same order
C29_Witness ==
  /\ pc = "select"
  /\ scenario = 2
  /\ bm25
  /\ Len(all_candidates) = 2
  /\ Len(all_docs) = 2
  /\ all_docs[1].doc = 1 /\ all_docs[2].doc = 2
  /\ search_calls >= 1

(***************************************************************************)
(* Properties of the lazy index build, checked under SpecBuild.            *)
(***************************************************************************)

\* C12: for any number of recommend calls running concurrently as the first
\* requests on one instance, the lexical index build (get_all plus BM25
\* construction) is executed at most once in total when that build succeeds.
C12_AtMostOneBuild ==
  ((\A t \in Threads : tpc[t] = "returned") /\ bm25_failures = 0)
    => bm25_builds <= 1

\* the lists one successful build leaves behind
BuiltLists == [i \in 1..Len(catalog) |-> i]

\* C24: in every reachable state, for any interleaving of concurrent
\* recommend calls on one instance and any outcome of each index build,
\* _bm25_initialized = True implies that bm25 is not None and that bm25_docs
\* and bm25_metas hold the lists of one successful build, with equal lengths;
\* a failed build never leaves the flag True with an emptied index.
C24_FlagImpliesIndex ==
  bm25_initialized =>
    /\ bm25
    /\ bm25_docs = BuiltLists
    /\ bm25_metas = BuiltLists
    /\ Len(bm25_docs) = Len(bm25_metas)

(***************************************************************************)
(* Properties of the embedding retry loop, checked under SpecEncode.       *)
(***************************************************************************)
RetryableKinds == {"timeout", "504", "rate limit"}

\* the embeddings of s are those of the first m texts, once each, in order
EmbeddedUpTo(s, m) ==
  s.all_embeddings = [t \in 1..(IF m < s.n_texts THEN m ELSE s.n_texts) |-> t]

\* the step is one attempt on the current batch
Attempted == enc'.tries = enc.tries + 1

\* C30: in an encode call with max_retries >= 1 on the Inference-API path,
\* a batch is attempted at most max_retries times; an attempt is followed
\* by another attempt on the same batch only if it failed with a timeout,
\* 504 or rate-limit error and was not the final attempt; an attempt that
\* failed with any other error, or with such an error on the final attempt,
\* raises that error to the caller; a batch is left behind only by an
\* attempt that succeeded and appended its embeddings, so a call that
\* returns has one embedding for every text and no failed batch is skipped.
C30_EmbeddingRetry ==
  [][enc.max_retries >= 1 =>
       /\ enc'.tries <= enc.max_retries
       /\ (Attempted /\ enc'.pc = "attempt") =>
             /\ enc'.e \in RetryableKinds
             /\ enc.attempt < enc.max_retries - 1
             /\ enc'.attempt = enc.attempt + 1
             /\ enc'.i = enc.i
       /\ (/\ Attempted
           /\ \/ enc'.e \notin RetryableKinds \cup {"none"}
              \/ enc'.e \in RetryableKinds /\ enc.attempt = enc.max_retries - 1) =>
             enc'.pc = "raised" /\ enc'.raised = enc'.e
       /\ (enc.pc = "attempt" /\ enc'.pc # "attempt") =>
             Attempted /\ enc'.pc \in {"batch", "raised"}
       /\ enc'.i # enc.i =>
             /\ Attempted
             /\ enc'.e = "none"
             /\ enc'.pc = "batch"
             /\ enc'.i = enc.i + enc.batch_size
       /\ enc'.pc \in {"batch", "attempt", "raised"} => EmbeddedUpTo(enc', enc'.i)
       /\ enc'.pc = "returned" => EmbeddedUpTo(enc', enc'.n_texts)
       /\ (enc.pc = "batch" /\ enc'.pc = "raised") =>
             enc.n_texts = 0 /\ enc'.raised = "AxisError"
    ]_vars

\* a call over two batches has returned; its last sleep was the six seconds
\* after a rate-limit error on the second attempt of a batch
C30_Witness ==
  /\ enc.pc = "returned"
  /\ enc.n_texts = 3
  /\ enc.batch_size = 2
  /\ enc.max_retries = 3
  /\ enc.wait_time = 6
  /\ enc.e = "none"
  /\ enc.all_embeddings = <<1, 2, 3>>

====
